---------------------------- MODULE Spec2Model ----------------------------
(***************************************************************************)
(* Model of the external-table ingestion core (src/ingest.go): the         *)
(* sentinel-aware comparator, the metadata loader, sort-and-verify, the    *)
(* linker, sequence stamping, the overlap probe, the target-level picker   *)
(* and DB.ingest with its prepare/apply callbacks, running against a       *)
(* memtable queue, a flusher, compactions and a commit pipeline.           *)
(***************************************************************************)
EXTENDS Integers, Sequences, FiniteSets, TLC

(***************************************************************************)
(* Bounds of the model.                                                    *)
(***************************************************************************)
\* user keys are 0..MaxKey
MaxKey == 2
\* the levels of the LSM are 0..numLevels-1
numLevels == 3
\* sequence numbers handed out by the commit pipeline stay <= MaxSeqNum
MaxSeqNum == 3

UserKeys == 0..MaxKey

(***************************************************************************)
(* Internal keys (internal/base): user key, sequence number, kind.         *)
(***************************************************************************)
KindDelete == "DELETE"
KindSet == "SET"
KindRangeDelete == "RANGEDEL"
KindRangeKeySet == "RANGEKEYSET"
KindInvalid == "INVALID"

\* the largest sequence number; only exclusive sentinels carry it
InternalKeySeqNumMax == MaxSeqNum + 1

\* the numeric value of a kind, as it orders trailers
KindNum(kind) ==
    CASE kind = KindDelete -> 0
      [] kind = KindSet -> 1
      [] kind = KindRangeDelete -> 15
      [] kind = KindRangeKeySet -> 21
      [] OTHER -> 255

MakeInternalKey(userKey, seqNum, kind) ==
    [UserKey |-> userKey, SeqNum |-> seqNum, Kind |-> kind]

MakeExclusiveSentinelKey(kind, userKey) ==
    MakeInternalKey(userKey, InternalKeySeqNumMax, kind)

\* the zero value of an InternalKey: nil user key, trailer 0
ZeroKey == MakeInternalKey(-1, 0, KindDelete)

IsExclusiveSentinel(k) ==
    /\ k.Kind \in {KindRangeDelete, KindRangeKeySet}
    /\ k.SeqNum = InternalKeySeqNumMax

\* userCmp: the comparison of two user keys, -1, 0 or +1
Compare(a, b) == IF a < b THEN -1 ELSE IF a > b THEN 1 ELSE 0

\* base.InternalCompare: user key ascending, then trailer descending
InternalCompare(a, b) ==
    IF Compare(a.UserKey, b.UserKey) # 0 THEN Compare(a.UserKey, b.UserKey)
    ELSE IF a.SeqNum > b.SeqNum THEN -1
    ELSE IF a.SeqNum < b.SeqNum THEN 1
    ELSE IF KindNum(a.Kind) > KindNum(b.Kind) THEN -1
    ELSE IF KindNum(a.Kind) < KindNum(b.Kind) THEN 1
    ELSE 0

\* a comparison of the user keys only
sstableKeyCompare_UserKeyOnly(a, b) == Compare(a.UserKey, b.UserKey)

sstableKeyCompare(a, b) ==
    LET c == Compare(a.UserKey, b.UserKey) IN
    IF c # 0 THEN c
    ELSE IF IsExclusiveSentinel(a)
         THEN (IF ~IsExclusiveSentinel(b) THEN -1 ELSE 0)
         ELSE (IF IsExclusiveSentinel(b) THEN 1 ELSE 0)

(***************************************************************************)
(* Tables.  A table (an sstable or a memtable) holds point keys and two    *)
(* sets of fragmented spans [Start, End) : range deletions and range keys. *)
(***************************************************************************)
Span(start, end, seqNum, kind) ==
    [Start |-> start, End |-> end, SeqNum |-> seqNum, Kind |-> kind]

SpanSmallestKey(s) == MakeInternalKey(s.Start, s.SeqNum, s.Kind)
SpanLargestKey(s) == MakeExclusiveSentinelKey(s.Kind, s.End)

Table(pts, dels, rks) == [pts |-> pts, dels |-> dels, rks |-> rks]
EmptyTable == Table({}, {}, {})

\* the first and last of a non-empty set of internal keys, in iteration order
FirstKey(ks) == CHOOSE k \in ks : \A o \in ks : InternalCompare(k, o) <= 0
LastKey(ks) == CHOOSE k \in ks : \A o \in ks : InternalCompare(k, o) >= 0
\* the first and last of a non-empty set of fragmented (disjoint) spans
FirstSpan(ss) == CHOOSE s \in ss : \A o \in ss : s.Start <= o.Start
LastSpan(ss) == CHOOSE s \in ss : \A o \in ss : s.Start >= o.Start

(***************************************************************************)
(* File metadata (manifest.FileMetadata).                                  *)
(***************************************************************************)
EmptyMeta(fileNum) ==
    [FileNum |-> fileNum,
     HasPointKeys |-> FALSE, HasRangeKeys |-> FALSE, boundsSet |-> FALSE,
     Smallest |-> ZeroKey, Largest |-> ZeroKey,
     SmallestPointKey |-> ZeroKey, LargestPointKey |-> ZeroKey,
     SmallestRangeKey |-> ZeroKey, LargestRangeKey |-> ZeroKey,
     SmallestSeqNum |-> 0, LargestSeqNum |-> 0]

extendOverallBounds(m, smallest, largest) ==
    IF ~m.boundsSet
    THEN [m EXCEPT !.Smallest = smallest, !.Largest = largest, !.boundsSet = TRUE]
    ELSE [m EXCEPT
            !.Smallest = IF InternalCompare(smallest, m.Smallest) < 0
                         THEN smallest ELSE m.Smallest,
            !.Largest = IF InternalCompare(largest, m.Largest) > 0
                        THEN largest ELSE m.Largest]

ExtendPointKeyBounds(m, smallest, largest) ==
    LET m1 == IF ~m.HasPointKeys
              THEN [m EXCEPT !.SmallestPointKey = smallest,
                             !.LargestPointKey = largest,
                             !.HasPointKeys = TRUE]
              ELSE [m EXCEPT
                      !.SmallestPointKey =
                          IF InternalCompare(smallest, m.SmallestPointKey) < 0
                          THEN smallest ELSE m.SmallestPointKey,
                      !.LargestPointKey =
                          IF InternalCompare(largest, m.LargestPointKey) > 0
                          THEN largest ELSE m.LargestPointKey]
    IN extendOverallBounds(m1, m1.SmallestPointKey, m1.LargestPointKey)

ExtendRangeKeyBounds(m, smallest, largest) ==
    LET m1 == IF ~m.HasRangeKeys
              THEN [m EXCEPT !.SmallestRangeKey = smallest,
                             !.LargestRangeKey = largest,
                             !.HasRangeKeys = TRUE]
              ELSE [m EXCEPT
                      !.SmallestRangeKey =
                          IF InternalCompare(smallest, m.SmallestRangeKey) < 0
                          THEN smallest ELSE m.SmallestRangeKey,
                      !.LargestRangeKey =
                          IF InternalCompare(largest, m.LargestRangeKey) > 0
                          THEN largest ELSE m.LargestRangeKey]
    IN extendOverallBounds(m1, m1.SmallestRangeKey, m1.LargestRangeKey)

\* FileMetadata.Validate: TRUE when the bounds are consistent
Validate(m) ==
    /\ m.HasPointKeys \/ m.HasRangeKeys
    /\ InternalCompare(m.Smallest, m.Largest) <= 0
    /\ m.SmallestSeqNum <= m.LargestSeqNum
    /\ m.HasPointKeys =>
         /\ InternalCompare(m.SmallestPointKey, m.LargestPointKey) <= 0
         /\ InternalCompare(m.SmallestPointKey, m.Smallest) >= 0
         /\ InternalCompare(m.LargestPointKey, m.Largest) <= 0
    /\ m.HasRangeKeys =>
         /\ InternalCompare(m.SmallestRangeKey, m.LargestRangeKey) <= 0
         /\ InternalCompare(m.SmallestRangeKey, m.Smallest) >= 0
         /\ InternalCompare(m.LargestRangeKey, m.Largest) <= 0

(***************************************************************************)
(* The metadata loader.                                                    *)
(***************************************************************************)
ErrNone == "nil"
ErrCorruption == "Corruption"
ErrFormat == "FormatMismatch"
ErrOverlap == "Overlap"
ErrIO == "IO"
\* the error of a failed objProvider.Remove
ErrRemove == "Remove"

\* a validation of the kind only
ingestValidateKey_KindOnly(key) ==
    IF key.Kind = KindInvalid THEN ErrCorruption ELSE ErrNone

\* ingestValidateKey: the error for one key
ingestValidateKey(key) ==
    IF key.Kind = KindInvalid THEN ErrCorruption
    ELSE IF key.SeqNum # 0 THEN ErrCorruption
    ELSE ErrNone

\* An external file: its table format is supported or not, it can be opened
\* and read or not, and its contents.
ExternalFile(tbl, formatOK, readOK) ==
    [tbl |-> tbl, formatOK |-> formatOK, readOK |-> readOK]

\* ingestLoad1: [err, meta, empty]
ingestLoad1(file, fileNum) ==
    LET t == file.tbl
        fail(e) == [err |-> e, empty |-> FALSE, meta |-> EmptyMeta(fileNum)]
        m0 == EmptyMeta(fileNum)
        pErr == IF t.pts = {} THEN ErrNone
                ELSE IF ingestValidateKey(FirstKey(t.pts)) # ErrNone
                     THEN ingestValidateKey(FirstKey(t.pts))
                     ELSE ingestValidateKey(LastKey(t.pts))
        m1 == IF t.pts = {} THEN m0
              ELSE ExtendPointKeyBounds(m0, FirstKey(t.pts), LastKey(t.pts))
        dErr == IF t.dels = {} THEN ErrNone
                ELSE IF ingestValidateKey(SpanSmallestKey(FirstSpan(t.dels))) # ErrNone
                     THEN ingestValidateKey(SpanSmallestKey(FirstSpan(t.dels)))
                     ELSE ingestValidateKey(SpanSmallestKey(LastSpan(t.dels)))
        m2 == IF t.dels = {} THEN m1
              ELSE ExtendPointKeyBounds(m1, SpanSmallestKey(FirstSpan(t.dels)),
                                        SpanLargestKey(LastSpan(t.dels)))
        rErr == IF t.rks = {} THEN ErrNone
                ELSE IF ingestValidateKey(SpanSmallestKey(FirstSpan(t.rks))) # ErrNone
                     THEN ingestValidateKey(SpanSmallestKey(FirstSpan(t.rks)))
                     ELSE ingestValidateKey(SpanSmallestKey(LastSpan(t.rks)))
        m3 == IF t.rks = {} THEN m2
              ELSE ExtendRangeKeyBounds(m2, SpanSmallestKey(FirstSpan(t.rks)),
                                        SpanLargestKey(LastSpan(t.rks)))
    IN  IF ~file.readOK THEN fail(ErrIO)
        ELSE IF ~file.formatOK THEN fail(ErrFormat)
        ELSE IF pErr # ErrNone THEN fail(pErr)
        ELSE IF dErr # ErrNone THEN fail(dErr)
        ELSE IF rErr # ErrNone THEN fail(rErr)
        ELSE IF ~m3.HasPointKeys /\ ~m3.HasRangeKeys
             THEN [err |-> ErrNone, empty |-> TRUE, meta |-> m3]
        ELSE IF ~Validate(m3) THEN fail(ErrCorruption)
        ELSE [err |-> ErrNone, empty |-> FALSE, meta |-> m3]


RECURSIVE ingestLoadFrom(_, _, _, _, _, _)
ingestLoadFrom(fs, paths, pending, i, meta, newPaths) ==
    IF i > Len(paths) THEN [err |-> ErrNone, meta |-> meta, paths |-> newPaths]
    ELSE LET r == ingestLoad1(fs[paths[i]], pending[i]) IN
         IF r.err # ErrNone THEN [err |-> r.err, meta |-> <<>>, paths |-> <<>>]
         ELSE IF r.empty
              THEN ingestLoadFrom(fs, paths, pending, i + 1, meta, newPaths)
              ELSE ingestLoadFrom(fs, paths, pending, i + 1,
                                  Append(meta, r.meta), Append(newPaths, paths[i]))

\* ingestLoad keeping the files without keys: [err, meta, paths]
ingestLoad_KeepEmpty(fs, paths, pending) ==
    LET r == [i \in 1..Len(paths) |-> ingestLoad1(fs[paths[i]], pending[i])] IN
    IF \E i \in 1..Len(paths) : r[i].err # ErrNone
    THEN [err |-> r[CHOOSE i \in 1..Len(paths) :
                      r[i].err # ErrNone /\ \A j \in 1..(i - 1) : r[j].err = ErrNone].err,
          meta |-> <<>>, paths |-> <<>>]
    ELSE [err |-> ErrNone, meta |-> [i \in 1..Len(paths) |-> r[i].meta],
          paths |-> paths]

\* ingestLoad: [err, meta, paths], the empty files dropped
ingestLoad(fs, paths, pending) ==
    ingestLoadFrom(fs, paths, pending, 1, <<>>, <<>>)

(***************************************************************************)
(* Sort-and-verify.                                                        *)
(***************************************************************************)
\* metaAndPaths.Less
Less(meta, i, j) == Compare(meta[i].Smallest.UserKey, meta[j].Smallest.UserKey) < 0

IndexPerms(n) ==
    {p \in [1..n -> 1..n] : \A i, j \in 1..n : i # j => p[i] # p[j]}

\* sort.Sort is not stable: it may leave the elements in any order in
\* which no element is Less than one before it.
SortResults(meta) ==
    {p \in IndexPerms(Len(meta)) :
        \A i, j \in 1..Len(meta) : i < j => ~Less(meta, p[j], p[i])}

\* the overlap check with > in the place of >=
VerifyNoOverlap_Strict(meta) ==
    IF \E i \in 2..Len(meta) :
          sstableKeyCompare(meta[i - 1].Largest, meta[i].Smallest) > 0
    THEN ErrOverlap ELSE ErrNone

\* an overlap check that accepts every list
VerifyNoOverlap_Never(meta) == ErrNone

\* the overlap check on the sorted list
VerifyNoOverlap(meta) ==
    IF \E i \in 2..Len(meta) :
          sstableKeyCompare(meta[i - 1].Largest, meta[i].Smallest) >= 0
    THEN ErrOverlap ELSE ErrNone

\* a sort whose Swap exchanges the descriptors and leaves the paths
ingestSortAndVerify_MetaOnly(meta, paths) ==
    IF Len(meta) <= 1 THEN {[err |-> ErrNone, meta |-> meta, paths |-> paths]}
    ELSE {LET sm == [i \in 1..Len(meta) |-> meta[p[i]]]
          IN [err |-> VerifyNoOverlap(sm), meta |-> sm, paths |-> paths]
          : p \in SortResults(meta)}

\* ingestSortAndVerify: the set of its possible results [err, meta, paths]
ingestSortAndVerify(meta, paths) ==
    IF Len(meta) <= 1 THEN {[err |-> ErrNone, meta |-> meta, paths |-> paths]}
    ELSE {LET sm == [i \in 1..Len(meta) |-> meta[p[i]]]
              sp == [i \in 1..Len(meta) |-> paths[p[i]]]
          IN [err |-> VerifyNoOverlap(sm), meta |-> sm, paths |-> sp]
          : p \in SortResults(meta)}

(***************************************************************************)
(* Sequence stamping.                                                      *)
(***************************************************************************)
setSeqFn(k, seqNum) == MakeInternalKey(k.UserKey, seqNum, k.Kind)

\* the body of the loop stamping a Largest that is an exclusive sentinel too
UpdateSeqNum1_StampSentinel(m, seqNum) ==
    [m EXCEPT
       !.SmallestPointKey = IF m.HasPointKeys THEN setSeqFn(@, seqNum) ELSE @,
       !.SmallestRangeKey = IF m.HasRangeKeys THEN setSeqFn(@, seqNum) ELSE @,
       !.Smallest = setSeqFn(@, seqNum),
       !.LargestPointKey = IF m.HasPointKeys THEN setSeqFn(@, seqNum) ELSE @,
       !.LargestRangeKey = IF m.HasRangeKeys THEN setSeqFn(@, seqNum) ELSE @,
       !.Largest = setSeqFn(@, seqNum),
       !.SmallestSeqNum = seqNum,
       !.LargestSeqNum = seqNum]

\* the body of ingestUpdateSeqNum's loop, up to the validation
UpdateSeqNum1(m, seqNum) ==
    [m EXCEPT
       !.SmallestPointKey = IF m.HasPointKeys THEN setSeqFn(@, seqNum) ELSE @,
       !.SmallestRangeKey = IF m.HasRangeKeys THEN setSeqFn(@, seqNum) ELSE @,
       !.Smallest = setSeqFn(@, seqNum),
       !.LargestPointKey = IF m.HasPointKeys /\ ~IsExclusiveSentinel(@)
                           THEN setSeqFn(@, seqNum) ELSE @,
       !.Largest = IF ~IsExclusiveSentinel(@) THEN setSeqFn(@, seqNum) ELSE @,
       !.SmallestSeqNum = seqNum,
       !.LargestSeqNum = seqNum]

\* ingestUpdateSeqNum without the increment of seqNum from file to file
ingestUpdateSeqNum_NoIncrement(seqNum, meta) ==
    [err |-> ErrNone,
     meta |-> [i \in 1..Len(meta) |-> UpdateSeqNum1(meta[i], seqNum)]]

\* ingestUpdateSeqNum: [err, meta]; the loop stops at the first file whose
\* new bounds do not validate, the files before it and that file updated
ingestUpdateSeqNum(seqNum, meta) ==
    LET upd == [i \in 1..Len(meta) |-> UpdateSeqNum1(meta[i], seqNum + i - 1)]
        bad == {i \in 1..Len(meta) : ~Validate(upd[i])}
        stop == IF bad = {} THEN Len(meta)
                ELSE CHOOSE i \in bad : \A j \in bad : i <= j
    IN [err |-> IF bad = {} THEN ErrNone ELSE ErrCorruption,
        meta |-> [i \in 1..Len(meta) |-> IF i <= stop THEN upd[i] ELSE meta[i]]]


(***************************************************************************)
(* Iterators.  A point iterator is given by what SeekGE returns for each   *)
(* user key (NoKey for nil); a fragment iterator by its set of spans, nil  *)
(* set for a nil iterator.                                                 *)
(***************************************************************************)
NoKey == [UserKey |-> -1, SeqNum |-> 0, Kind |-> "nil"]
FragmentIter(spans) == [nil |-> FALSE, spans |-> spans]
NoIter == [nil |-> TRUE, spans |-> {}]

\* SeekGE of an iterator over a set of point keys
SeekGE(pts, userKey) ==
    LET ge == {k \in pts : k.UserKey >= userKey} IN
    IF ge = {} THEN NoKey ELSE FirstKey(ge)

\* the iterators newIters, newRangeKeyIter (and a memtable) give for a table
PointIter(tbl) == [u \in UserKeys |-> SeekGE(tbl.pts, u)]
RangeDelIter(tbl) == IF tbl.dels = {} THEN NoIter ELSE FragmentIter(tbl.dels)
RangeKeyIter(tbl) == IF tbl.rks = {} THEN NoIter ELSE FragmentIter(tbl.rks)

\* the spans of a fragment iterator in iteration order
RECURSIVE SpansInOrder(_)
SpansInOrder(ss) ==
    IF ss = {} THEN <<>>
    ELSE <<FirstSpan(ss)>> \o SpansInOrder(ss \ {FirstSpan(ss)})

\* Span.Empty: a span that holds no keys; it has bounds and the kind "none"
Empty(span) == span.Kind = "none"

\* the loop of computeOverlapWithSpans from position i
RECURSIVE spanLoop(_, _, _)
spanLoop(spans, i, meta) ==
    IF i > Len(spans) THEN FALSE
    ELSE IF Empty(spans[i]) THEN spanLoop(spans, i + 1, meta)
    ELSE IF sstableKeyCompare(SpanSmallestKey(spans[i]), meta.Largest) > 0 THEN FALSE
    ELSE IF Compare(spans[i].End, meta.Smallest.UserKey) > 0 THEN TRUE
    ELSE spanLoop(spans, i + 1, meta)

\* computeOverlapWithSpans starting at the first span at or after
\* meta.Smallest.UserKey
computeOverlapWithSpans_SeekGE(rIter, meta) ==
    LET spans == SpansInOrder(rIter.spans)
        ge == {i \in 1..Len(spans) : spans[i].Start >= meta.Smallest.UserKey}
        from == IF ge = {} THEN Len(spans) + 1 ELSE CHOOSE i \in ge : \A j \in ge : i <= j
    IN spanLoop(spans, from, meta)

\* computeOverlapWithSpans: SeekLT(meta.Smallest.UserKey), or the first span
\* when there is none, and then forward
computeOverlapWithSpans(rIter, meta) ==
    LET spans == SpansInOrder(rIter.spans)
        lt == {i \in 1..Len(spans) : spans[i].Start < meta.Smallest.UserKey}
        from == IF lt = {} THEN 1 ELSE CHOOSE i \in lt : \A j \in lt : j <= i
    IN spanLoop(spans, from, meta)

\* overlapWithIterator looking at the point keys only
overlapWithIterator_PointsOnly(iter, rangeDelIter, rkeyIter, meta) ==
    LET key == iter[meta.Smallest.UserKey] IN
    key # NoKey /\ sstableKeyCompare(key, meta.Largest) <= 0

\* overlapWithIterator(iter, rangeDelIter, rkeyIter, meta): iter is the
\* point iterator; rangeDelIter[u] is what the range-deletion pointer
\* holds once iter was sought to u
overlapWithIterator(iter, rangeDelIter, rkeyIter, meta) ==
    LET key == iter[meta.Smallest.UserKey] IN
    IF key # NoKey /\ sstableKeyCompare(key, meta.Largest) <= 0 THEN TRUE
    ELSE IF rkeyIter # NoIter /\ computeOverlapWithSpans(rkeyIter, meta) THEN TRUE
    ELSE IF rangeDelIter[meta.Smallest.UserKey] = NoIter THEN FALSE
    ELSE computeOverlapWithSpans(rangeDelIter[meta.Smallest.UserKey], meta)

\* no memtable is found to overlap
ingestMemtableOverlaps_None(mem, meta) == FALSE

\* ingestMemtableOverlaps(mem, meta): mem is the flushable's table
ingestMemtableOverlaps(mem, meta) ==
    \E i \in 1..Len(meta) :
        overlapWithIterator(PointIter(mem), [u \in UserKeys |-> RangeDelIter(mem)],
                            RangeKeyIter(mem), meta[i])


(***************************************************************************)
(* Versions.  A version gives the set of files of each level; a file is    *)
(* its metadata and its table.                                             *)
(***************************************************************************)
Levels == 0..(numLevels - 1)
File(meta, tbl) == [meta |-> meta, tbl |-> tbl]
EmptyVersion == [l \in Levels |-> {}]

\* the files of a level > 0 in key order (LevelMetadata.Iter)
RECURSIVE LevelInOrder(_)
LevelInOrder(files) ==
    IF files = {} THEN <<>>
    ELSE LET f == CHOOSE f \in files : \A o \in files :
                     \/ InternalCompare(f.meta.Smallest, o.meta.Smallest) < 0
                     \/ /\ InternalCompare(f.meta.Smallest, o.meta.Smallest) = 0
                        /\ f.meta.FileNum <= o.meta.FileNum
         IN <<f>> \o LevelInOrder(files \ {f})

\* the files of L0 in sequence-number order
RECURSIVE L0InOrder(_)
L0InOrder(files) ==
    IF files = {} THEN <<>>
    ELSE LET f == CHOOSE f \in files : \A o \in files :
                     \/ f.meta.LargestSeqNum < o.meta.LargestSeqNum
                     \/ /\ f.meta.LargestSeqNum = o.meta.LargestSeqNum
                        /\ f.meta.FileNum <= o.meta.FileNum
         IN <<f>> \o L0InOrder(files \ {f})

\* levelIter.findFileGE: the index of the first file at or after the one
\* LevelIterator.SeekGE finds that has a point key >= userKey in its bounds
findFileGE(files, userKey) ==
    LET ok == {i \in 1..Len(files) :
                 /\ files[i].meta.Largest.UserKey >= userKey
                 /\ files[i].meta.HasPointKeys
                 /\ \/ files[i].meta.LargestPointKey.UserKey > userKey
                    \/ /\ files[i].meta.LargestPointKey.UserKey = userKey
                       /\ ~IsExclusiveSentinel(files[i].meta.LargestPointKey)}
    IN IF ok = {} THEN 0 ELSE CHOOSE i \in ok : \A j \in ok : i <= j

\* levelIter.SeekGE and skipEmptyFileForward from file i: the key returned,
\* the file whose range deletions the pointer then holds (0: nil)
RECURSIVE levelIterFrom(_, _, _, _)
levelIterFrom(files, i, userKey, first) ==
    IF i = 0 \/ i > Len(files) THEN [key |-> NoKey, file |-> 0]
    ELSE IF ~files[i].meta.HasPointKeys
         THEN levelIterFrom(files, i + 1, userKey, first)
    ELSE LET key == IF first THEN SeekGE(files[i].tbl.pts, userKey)
                    ELSE SeekGE(files[i].tbl.pts, 0)
         IN IF key # NoKey THEN [key |-> key, file |-> i]
            ELSE IF files[i].meta.LargestPointKey.Kind = KindRangeDelete
                 THEN [key |-> files[i].meta.LargestPointKey, file |-> i]
            ELSE levelIterFrom(files, i + 1, userKey, FALSE)

levelIterSeekGE(files, userKey) ==
    levelIterFrom(files, findFileGE(files, userKey), userKey, TRUE)

\* newLevelIter with initRangeDel: the point iterator and the range-deletion
\* pointer of a level
LevelPointIter(files) == [u \in UserKeys |-> levelIterSeekGE(files, u).key]
LevelRangeDelIter(files) ==
    [u \in UserKeys |->
        LET i == levelIterSeekGE(files, u).file IN
        IF i = 0 THEN NoIter ELSE RangeDelIter(files[i].tbl)]
\* keyspan.LevelIter over the range keys of a level
LevelRangeKeyIter(files) ==
    FragmentIter(UNION {files[i].tbl.rks : i \in 1..Len(files)})

\* Version.Overlaps for a level > 0: the files whose bounds intersect
\* [start, end], or [start, end) with exclusiveEnd
Overlaps(files, start, end, exclusiveEnd) ==
    {f \in files :
        /\ \/ f.meta.Largest.UserKey > start
           \/ /\ f.meta.Largest.UserKey = start
              /\ ~IsExclusiveSentinel(f.meta.Largest)
        /\ IF exclusiveEnd THEN f.meta.Smallest.UserKey < end
           ELSE f.meta.Smallest.UserKey <= end}

\* an in-progress compaction
Compaction(outputLevel, smallest, largest, inputs) ==
    [outputLevel |-> outputLevel, smallest |-> smallest, largest |-> largest,
     inputs |-> inputs]

(***************************************************************************)
(* The target-level picker.  newIters is the set of file numbers whose     *)
(* iterators cannot be opened.                                             *)
(***************************************************************************)
\* the scan of L0 from position i: [done, level, err]
RECURSIVE scanL0(_, _, _, _)
scanL0(newIters, files, i, meta) ==
    IF i > Len(files) THEN [done |-> FALSE, level |-> 0, err |-> ErrNone]
    ELSE LET meta0 == files[i].meta
             c1 == sstableKeyCompare(meta.Smallest, meta0.Largest)
             c2 == sstableKeyCompare(meta.Largest, meta0.Smallest)
         IN IF c1 > 0 \/ c2 < 0 THEN scanL0(newIters, files, i + 1, meta)
            ELSE IF meta0.FileNum \in newIters
                 THEN [done |-> TRUE, level |-> 0, err |-> ErrIO]
            ELSE IF overlapWithIterator(PointIter(files[i].tbl),
                                        [u \in UserKeys |-> RangeDelIter(files[i].tbl)],
                                        RangeKeyIter(files[i].tbl), meta)
                 THEN [done |-> TRUE, level |-> 0, err |-> ErrNone]
            ELSE scanL0(newIters, files, i + 1, meta)

\* the check against the in-progress compactions into level
compactionOverlaps(compactions, level, meta) ==
    \E c \in compactions :
        /\ c.outputLevel = level
        /\ Compare(meta.Smallest.UserKey, c.largest.UserKey) <= 0
        /\ Compare(meta.Largest.UserKey, c.smallest.UserKey) >= 0

\* no file is found to overlap
boundaryOverlaps_None(v, level, meta) == {}

\* the files of level whose bounds overlap meta's
boundaryOverlaps(v, level, meta) ==
    Overlaps(v[level], meta.Smallest.UserKey, meta.Largest.UserKey,
             IsExclusiveSentinel(meta.Largest))

\* a loop over the levels that ends at a level it has to pass over
RECURSIVE scanLevels_StopAtSkip(_, _, _, _, _, _)
scanLevels_StopAtSkip(newIters, v, compactions, meta, level, targetLevel) ==
    IF level >= numLevels THEN [level |-> targetLevel, err |-> ErrNone]
    ELSE LET files == LevelInOrder(v[level])
             seek == levelIterSeekGE(files, meta.Smallest.UserKey)
             overlap == overlapWithIterator(LevelPointIter(files),
                                            LevelRangeDelIter(files),
                                            LevelRangeKeyIter(files), meta)
         IN IF seek.file # 0 /\ files[seek.file].meta.FileNum \in newIters
            THEN [level |-> 0, err |-> ErrIO]
            ELSE IF overlap THEN [level |-> targetLevel, err |-> ErrNone]
            ELSE IF boundaryOverlaps(v, level, meta) # {}
                 THEN [level |-> targetLevel, err |-> ErrNone]
            ELSE IF compactionOverlaps(compactions, level, meta)
                 THEN [level |-> targetLevel, err |-> ErrNone]
            ELSE scanLevels_StopAtSkip(newIters, v, compactions, meta, level + 1,
                                       level)

\* a loop over the levels that keeps the first level it can use, not the
\* last
scanLevels_First(newIters, v, compactions, meta, level, targetLevel) ==
    LET over(l) == overlapWithIterator(LevelPointIter(LevelInOrder(v[l])),
                                       LevelRangeDelIter(LevelInOrder(v[l])),
                                       LevelRangeKeyIter(LevelInOrder(v[l])), meta)
        usable == {l \in level..(numLevels - 1) :
                      /\ \A k \in level..l : ~over(k)
                      /\ boundaryOverlaps(v, l, meta) = {}
                      /\ ~compactionOverlaps(compactions, l, meta)}
    IN [level |-> IF usable = {} THEN targetLevel
                  ELSE CHOOSE l \in usable : \A k \in usable : l <= k,
        err |-> ErrNone]

\* the loop over the levels from level on: [level, err]
RECURSIVE scanLevels(_, _, _, _, _, _)
scanLevels(newIters, v, compactions, meta, level, targetLevel) ==
    IF level >= numLevels THEN [level |-> targetLevel, err |-> ErrNone]
    ELSE LET files == LevelInOrder(v[level])
             seek == levelIterSeekGE(files, meta.Smallest.UserKey)
             overlap == overlapWithIterator(LevelPointIter(files),
                                            LevelRangeDelIter(files),
                                            LevelRangeKeyIter(files), meta)
         IN IF seek.file # 0 /\ files[seek.file].meta.FileNum \in newIters
            THEN [level |-> 0, err |-> ErrIO]
            ELSE IF overlap THEN [level |-> targetLevel, err |-> ErrNone]
            ELSE IF boundaryOverlaps(v, level, meta) # {}
                 THEN scanLevels(newIters, v, compactions, meta, level + 1, targetLevel)
            ELSE IF compactionOverlaps(compactions, level, meta)
                 THEN scanLevels(newIters, v, compactions, meta, level + 1, targetLevel)
            ELSE scanLevels(newIters, v, compactions, meta, level + 1, level)

\* a picker whose search starts at level 1, whatever the base level
ingestTargetLevel_FromL1(newIters, v, baseLevel, compactions, meta) ==
    LET l0 == scanL0(newIters, L0InOrder(v[0]), 1, meta) IN
    IF l0.done THEN [level |-> l0.level, err |-> l0.err]
    ELSE scanLevels(newIters, v, compactions, meta, 1, 0)

\* ingestTargetLevel: [level, err]
ingestTargetLevel(newIters, v, baseLevel, compactions, meta) ==
    LET l0 == scanL0(newIters, L0InOrder(v[0]), 1, meta) IN
    IF l0.done THEN [level |-> l0.level, err |-> l0.err]
    ELSE scanLevels(newIters, v, compactions, meta, baseLevel, 0)


(***************************************************************************)
(* Tables as the database holds them.                                      *)
(***************************************************************************)
\* every key of a table
TableSeqNums(tbl) ==
    {k.SeqNum : k \in tbl.pts} \cup {sp.SeqNum : sp \in tbl.dels \cup tbl.rks}
SetMin(S) == CHOOSE x \in S : \A y \in S : x <= y
SetMax(S) == CHOOSE x \in S : \A y \in S : x >= y

\* the bounds of a non-empty table, as a flush or a compaction records them
TableMeta(tbl, fileNum) ==
    LET m0 == EmptyMeta(fileNum)
        m1 == IF tbl.pts = {} THEN m0
              ELSE ExtendPointKeyBounds(m0, FirstKey(tbl.pts), LastKey(tbl.pts))
        m2 == IF tbl.dels = {} THEN m1
              ELSE ExtendPointKeyBounds(m1, SpanSmallestKey(FirstSpan(tbl.dels)),
                                        SpanLargestKey(LastSpan(tbl.dels)))
        m3 == IF tbl.rks = {} THEN m2
              ELSE ExtendRangeKeyBounds(m2, SpanSmallestKey(FirstSpan(tbl.rks)),
                                        SpanLargestKey(LastSpan(tbl.rks)))
    IN [m3 EXCEPT !.SmallestSeqNum = SetMin(TableSeqNums(tbl)),
                  !.LargestSeqNum = SetMax(TableSeqNums(tbl))]

\* an ingested table as a reader sees it: every key at the file's global
\* sequence number (Properties.GlobalSeqNum)
WithGlobalSeqNum(tbl, seqNum) ==
    Table({MakeInternalKey(k.UserKey, seqNum, k.Kind) : k \in tbl.pts},
          {Span(sp.Start, sp.End, seqNum, sp.Kind) : sp \in tbl.dels},
          {Span(sp.Start, sp.End, seqNum, sp.Kind) : sp \in tbl.rks})

\* spans merged by a compaction, fragmented at every user key, the newest
\* span kept for each fragment
MergeSpans(ss) ==
    {Span(u, u + 1,
          SetMax({sp.SeqNum : sp \in {x \in ss : x.Start <= u /\ u < x.End}}),
          (CHOOSE x \in ss : x.Start <= u /\ u < x.End).Kind)
       : u \in {w \in UserKeys : \E x \in ss : x.Start <= w /\ w < x.End}}

MergeTables(tbls) ==
    Table(UNION {t.pts : t \in tbls},
          MergeSpans(UNION {t.dels : t \in tbls}),
          MergeSpans(UNION {t.rks : t \in tbls}))


(***************************************************************************)
(* The external files offered for ingestion (opts.FS) and the path lists   *)
(* the callers pass.                                                       *)
(***************************************************************************)
PointTable(ks) == Table({MakeInternalKey(k, 0, KindSet) : k \in ks}, {}, {})

ExtFS ==
    <<ExternalFile(PointTable({0, 2}), TRUE, TRUE),
      ExternalFile(PointTable({1}), TRUE, TRUE),
      ExternalFile(Table({}, {Span(1, 2, 0, KindRangeDelete)}, {}), TRUE, TRUE),
      ExternalFile(EmptyTable, TRUE, TRUE),
      ExternalFile(Table({MakeInternalKey(0, 1, KindSet)}, {}, {}), TRUE, TRUE),
      ExternalFile(PointTable({0}), TRUE, TRUE)>>

IngestInputs == {<<3, 6>>, <<4, 1>>, <<3, 2>>, <<5>>, <<4>>}

(***************************************************************************)
(* The database.                                                           *)
(***************************************************************************)
\* the ingesting goroutines
Procs == {1}
\* the calls of DB.ingest in one behaviour
MaxJobs == 2
\* Options.MemTableStopWritesThreshold
MemTableStopWritesThreshold == 2
\* Options.MaxConcurrentCompactions
MaxConcurrentCompactions == 1
\* the user keys the writers set
WriteKeys == {1}
\* the failures the environment may inject in one behaviour
MaxFaults == 1

VARIABLES
    queue,          \* d.mu.mem.queue, oldest first, the mutable memtable last
    levels,         \* d.mu.versions.currentVersion(): the files of each level
    baseLevel,      \* d.mu.versions.picker.getBaseLevel()
    inProgress,     \* d.mu.compact.inProgress
    logLock,        \* the holder of the manifest lock (logLock), 0 when free
    commitMu,       \* the holder of commitPipeline.mu, 0 when free
    logSeqNum,      \* the next sequence number the commit pipeline allocates
    visibleSeqNum,  \* every sequence number below it is visible to readers
    nextFileNum,    \* d.mu.versions.getNextFileNum()
    nextJobID,      \* d.mu.nextJobID
    objs,           \* the table objects of the object provider
    extfs,          \* the paths that exist in opts.FS
    obsoleteTables, \* the files compactions have replaced
    ing,            \* the state of each goroutine's DB.ingest call
    faults,         \* the failures injected so far
    fn              \* the argument and result of a function applied alone

vars == <<queue, levels, baseLevel, inProgress, logLock, commitMu, logSeqNum,
          visibleSeqNum, nextFileNum, nextJobID, objs, extfs, obsoleteTables,
          ing, faults, fn>>
dbVars == <<queue, levels, baseLevel, inProgress, logLock, commitMu, logSeqNum,
            visibleSeqNum, nextFileNum, nextJobID, objs, extfs, obsoleteTables,
            ing, faults>>

\* an entry of the memtable queue: a memtable (tbl) or an ingested
\* flushable (files), with the sequence number it starts at; waiters are
\* the goroutines blocked on its flushed channel, refs the references the
\* entry holds on each of its files
MemEntry(tbl, seqNum) ==
    [ingested |-> FALSE, tbl |-> tbl, files |-> <<>>, flushForced |-> FALSE,
     waiters |-> {}, logSeqNum |-> seqNum, refs |-> <<>>]
IngestedEntry(files, seqNum) ==
    [ingested |-> TRUE, tbl |-> EmptyTable, files |-> files, flushForced |-> TRUE,
     waiters |-> {}, logSeqNum |-> seqNum, refs |-> [i \in 1..Len(files) |-> 1]]

\* what a flushable's iterators range over
FlushableTable(e) ==
    IF e.ingested
    THEN Table(UNION {e.files[i].tbl.pts : i \in 1..Len(e.files)},
               UNION {e.files[i].tbl.dels : i \in 1..Len(e.files)},
               UNION {e.files[i].tbl.rks : i \in 1..Len(e.files)})
    ELSE e.tbl

\* the base levels a version allows: no level between L0 and the base
\* level holds a file
BaseLevels(v) ==
    {b \in 1..(numLevels - 1) : \A l \in 1..(b - 1) : v[l] = {}}

IdleIngest ==
    [pc |-> "idle", args |-> <<>>, paths |-> <<>>, meta |-> <<>>, pending |-> <<>>,
     jobID |-> 0, seqNum |-> 0, err |-> ErrNone, pinned |-> FALSE,
     memFlushed |-> FALSE, asFlushable |-> FALSE, ve |-> <<>>, veSet |-> FALSE,
     formatOld |-> FALSE, disabled |-> FALSE, synced |-> FALSE,
     logLocks |-> 0, logUnlocks |-> 0,
     ret |-> ErrNone, events |-> <<>>]

InitDB ==
    /\ queue = <<MemEntry(EmptyTable, 1)>>
    /\ levels = EmptyVersion
    /\ baseLevel = numLevels - 1
    /\ inProgress = {}
    /\ logLock = 0
    /\ commitMu = 0
    /\ logSeqNum = 1
    /\ visibleSeqNum = 1
    /\ nextFileNum = 1
    /\ nextJobID = 1
    /\ objs = {}
    /\ extfs = 1..Len(ExtFS)
    /\ obsoleteTables = {}
    /\ ing = [p \in Procs |-> IdleIngest]
    /\ faults = 0

(***************************************************************************)
(* Writers, the flusher and compactions.                                   *)
(***************************************************************************)
\* a committed batch setting one key: it gets the next sequence number and
\* is applied to the mutable memtable; it becomes visible at once unless an
\* ingestion before it has not been published yet
Write(k) ==
    /\ k \in WriteKeys
    /\ commitMu = 0
    /\ logSeqNum <= MaxSeqNum
    /\ queue' = [queue EXCEPT ![Len(queue)].tbl.pts =
                    @ \cup {MakeInternalKey(k, logSeqNum, KindSet)}]
    /\ logSeqNum' = logSeqNum + 1
    /\ visibleSeqNum' = IF visibleSeqNum = logSeqNum THEN logSeqNum + 1
                        ELSE visibleSeqNum
    /\ UNCHANGED <<levels, baseLevel, inProgress, logLock, commitMu, nextFileNum,
                   nextJobID, objs, extfs, obsoleteTables, ing, faults, fn>>

\* d.rotateMemtable: the mutable memtable becomes immutable and a new one,
\* which starts at logSeqNum, is queued
rotateMemtable(q, seqNum) == Append(q, MemEntry(EmptyTable, seqNum))

\* makeRoomForWrite for a full memtable
RotateMemtable ==
    /\ commitMu = 0
    /\ Len(queue) < MemTableStopWritesThreshold
    /\ FlushableTable(queue[Len(queue)]) # EmptyTable
    /\ queue' = rotateMemtable(queue, logSeqNum)
    /\ UNCHANGED <<levels, baseLevel, inProgress, logLock, commitMu, logSeqNum,
                   visibleSeqNum, nextFileNum, nextJobID, objs, extfs,
                   obsoleteTables, ing, faults, fn>>

\* the levels with the files fs added, fs a sequence of [Level, File]
RECURSIVE AddFiles(_, _)
AddFiles(v, fs) ==
    IF fs = <<>> THEN v
    ELSE AddFiles([v EXCEPT ![Head(fs).Level] = @ \cup {Head(fs).File}], Tail(fs))

\* a flush of the oldest flushable: a memtable becomes a file of L0, the
\* files of an ingested flushable go to the levels the picker gives them;
\* the version edit is applied under the manifest lock and the flushed
\* channel is closed
Flush ==
    /\ Len(queue) >= 2
    /\ logLock = 0
    /\ LET e == Head(queue)
           f == File(TableMeta(e.tbl, nextFileNum), e.tbl)
           placed == [i \in 1..Len(e.files) |->
                        [Level |-> ingestTargetLevel({}, levels, baseLevel,
                                        inProgress, e.files[i].meta).level,
                         File |-> e.files[i]]]
       IN /\ levels' = IF e.ingested THEN AddFiles(levels, placed)
                       ELSE IF e.tbl = EmptyTable THEN levels
                       ELSE [levels EXCEPT ![0] = @ \cup {f}]
          /\ nextFileNum' = IF e.ingested \/ e.tbl = EmptyTable THEN nextFileNum
                            ELSE nextFileNum + 1
          /\ objs' = IF e.ingested \/ e.tbl = EmptyTable THEN objs
                     ELSE objs \cup {nextFileNum}
          /\ ing' = [p \in DOMAIN ing |->
                       IF p \in e.waiters THEN [ing[p] EXCEPT !.memFlushed = TRUE]
                       ELSE ing[p]]
    /\ queue' = Tail(queue)
    /\ baseLevel' \in BaseLevels(levels')
    /\ UNCHANGED <<inProgress, logLock, commitMu, logSeqNum, visibleSeqNum,
                   nextJobID, extfs, obsoleteTables, faults, fn>>

\* the files of the in-progress compactions
Compacting == UNION {c.inputs : c \in inProgress}

\* a compaction is picked under the manifest lock: a file of a level > 0
\* with the files of the next level it overlaps, or every file of L0 with
\* the files of the base level they overlap
CompactionStart(level, f) ==
    /\ logLock = 0
    /\ Cardinality(inProgress) < MaxConcurrentCompactions
    /\ level < numLevels - 1
    /\ f \in levels[level]
    /\ LET out == IF level = 0 THEN baseLevel ELSE level + 1
           from == IF level = 0 THEN levels[0] ELSE {f}
           lo == SetMin({x.meta.Smallest.UserKey : x \in from})
           hi == SetMax({x.meta.Largest.UserKey : x \in from})
           inputs == from \cup Overlaps(levels[out], lo, hi, FALSE)
           c == Compaction(out,
                    MakeInternalKey(SetMin({x.meta.Smallest.UserKey : x \in inputs}),
                                    0, KindSet),
                    MakeInternalKey(SetMax({x.meta.Largest.UserKey : x \in inputs}),
                                    0, KindSet),
                    inputs)
       IN /\ inputs \cap Compacting = {}
          /\ \A o \in inProgress :
                o.outputLevel = out =>
                   \/ o.largest.UserKey < c.smallest.UserKey
                   \/ c.largest.UserKey < o.smallest.UserKey
          /\ inProgress' = inProgress \cup {c}
    /\ UNCHANGED <<queue, levels, baseLevel, logLock, commitMu, logSeqNum,
                   visibleSeqNum, nextFileNum, nextJobID, objs, extfs,
                   obsoleteTables, ing, faults, fn>>

\* a compaction ends: its inputs are replaced by one merged file of the
\* output level, under the manifest lock
CompactionDone(c) ==
    /\ logLock = 0
    /\ c \in inProgress
    /\ LET tbl == MergeTables({x.tbl : x \in c.inputs})
           f == File(TableMeta(tbl, nextFileNum), tbl)
       IN levels' = [l \in Levels |->
                       IF l = c.outputLevel THEN (levels[l] \ c.inputs) \cup {f}
                       ELSE levels[l] \ c.inputs]
    /\ nextFileNum' = nextFileNum + 1
    /\ objs' = (objs \ {x.meta.FileNum : x \in c.inputs}) \cup {nextFileNum}
    /\ obsoleteTables' = obsoleteTables \cup {x.meta.FileNum : x \in c.inputs}
    /\ inProgress' = inProgress \ {c}
    /\ baseLevel' \in BaseLevels(levels')
    /\ UNCHANGED <<queue, logLock, commitMu, logSeqNum, visibleSeqNum, nextJobID,
                   extfs, ing, faults, fn>>


(***************************************************************************)
(* The linker.                                                             *)
(***************************************************************************)
\* a cleanup that removes nothing
ingestCleanup_Keep(provider, meta, failRemove) ==
    [err |-> ErrNone, objs |-> provider]

\* ingestCleanup on the provider's objects: [err, objs]; failRemove are the
\* file numbers whose Remove fails
ingestCleanup(provider, meta, failRemove) ==
    LET nums == {meta[i].FileNum : i \in 1..Len(meta)} IN
    [err |-> IF nums \cap failRemove # {} THEN ErrRemove ELSE ErrNone,
     objs |-> provider \ (nums \ failRemove)]

\* a linker that leaves the objects it installed when a later one fails
ingestLink_NoRollback(provider, meta, failAt, failRemove) ==
    IF failAt = 0
    THEN [err |-> ErrNone,
          objs |-> provider \cup {meta[i].FileNum : i \in 1..Len(meta)}]
    ELSE [err |-> ErrIO,
          objs |-> provider \cup {meta[i].FileNum : i \in 1..(failAt - 1)}]

\* ingestLink: [err, objs]; LinkOrCopyFromLocal fails at index failAt
\* (0: it never fails)
ingestLink(provider, meta, failAt, failRemove) ==
    IF failAt = 0
    THEN [err |-> ErrNone,
          objs |-> provider \cup {meta[i].FileNum : i \in 1..Len(meta)}]
    ELSE [err |-> ErrIO,
          objs |-> ingestCleanup(
                      provider \cup {meta[i].FileNum : i \in 1..(failAt - 1)},
                      SubSeq(meta, 1, failAt - 1), failRemove).objs]

(***************************************************************************)
(* DB.ingest.                                                              *)
(***************************************************************************)
SetIng(p, r) == ing' = [ing EXCEPT ![p] = r]

\* opts.FS as DB.ingest finds it: a path that was removed cannot be opened
OpenFS(present) ==
    [i \in 1..Len(ExtFS) |->
        IF i \in present THEN ExtFS[i] ELSE [ExtFS[i] EXCEPT !.readOK = FALSE]]

\* DB.ingest returns err without a TableIngested event
ReturnEarly(r, err) == [r EXCEPT !.pc = "done", !.ret = err]

\* a call that goes on after a failed Sync
syncTables_IgnoreErr(r, failSync) ==
    [r EXCEPT !.pc = "prepare", !.synced = ~failSync]

\* d.objProvider.Sync after the link: DB.ingest returns its error, or goes
\* on to AllocateSeqNum with the linked tables durable
syncTables(r, failSync) ==
    IF failSync THEN ReturnEarly(r, ErrIO)
    ELSE [r EXCEPT !.pc = "prepare", !.synced = TRUE]

\* DB.ingest up to AllocateSeqNum: the file numbers and the job id are
\* allocated under d.mu, the metadata is loaded, sorted and checked for
\* overlap, the files are linked and the provider synced; the link fails
\* at file failAt, or the sync fails, or neither
IngestStart(p, paths) ==
    /\ ing[p].pc \in {"idle", "done"}
    /\ nextJobID <= MaxJobs
    /\ nextFileNum' = nextFileNum + Len(paths)
    /\ nextJobID' = nextJobID + 1
    /\ LET pending == [i \in 1..Len(paths) |-> nextFileNum + i - 1]
           r0 == [IdleIngest EXCEPT !.args = paths, !.paths = paths,
                                    !.pending = pending, !.jobID = nextJobID]
           l == ingestLoad(OpenFS(extfs), paths, pending)
       IN IF l.err # ErrNone
          THEN SetIng(p, ReturnEarly(r0, l.err)) /\ UNCHANGED <<objs, faults>>
          ELSE IF Len(l.meta) = 0
          THEN SetIng(p, ReturnEarly(r0, ErrNone)) /\ UNCHANGED <<objs, faults>>
          ELSE \E s \in ingestSortAndVerify(l.meta, l.paths) :
                 LET r1 == [r0 EXCEPT !.meta = s.meta, !.paths = s.paths] IN
                 IF s.err # ErrNone
                 THEN SetIng(p, ReturnEarly(r1, s.err)) /\ UNCHANGED <<objs, faults>>
                 ELSE \E failAt \in 0..Len(s.meta), failSync \in BOOLEAN :
                        /\ failAt # 0 \/ failSync => faults < MaxFaults
                        /\ ~(failAt # 0 /\ failSync)
                        /\ faults' = IF failAt # 0 \/ failSync THEN faults + 1
                                     ELSE faults
                        /\ LET k == ingestLink(objs, s.meta, failAt, {}) IN
                           /\ objs' = k.objs
                           /\ SetIng(p, IF k.err # ErrNone THEN ReturnEarly(r1, k.err)
                                        ELSE syncTables(r1, failSync))
    /\ UNCHANGED <<queue, levels, baseLevel, inProgress, logLock, commitMu,
                   logSeqNum, visibleSeqNum, extfs, obsoleteTables, fn>>

\* ingestMemtableOverlaps with the closing of its iterators: an overlap is
\* assumed when closing them gives an error
ingestMemtableOverlapsClose(mem, meta, closeErr) ==
    ingestMemtableOverlaps(mem, meta) \/ closeErr

\* a walk from the oldest entry on
RECURSIVE prepareWalk_OldestFirst(_, _, _, _, _)
prepareWalk_OldestFirst(q, meta, closeErr, i, probed) ==
    LET j == Len(q) + 1 - i IN
    IF i = 0 THEN [mem |-> 0, probed |-> probed]
    ELSE IF ingestMemtableOverlapsClose(FlushableTable(q[j]), meta, j \in closeErr)
    THEN [mem |-> j, probed |-> probed \cup {j}]
    ELSE prepareWalk_OldestFirst(q, meta, closeErr, i - 1, probed \cup {j})

\* the loop of prepare over the queue, from entry i down: [mem, probed],
\* the entry it stops at (0: none) and the entries it has probed; closeErr
\* are the entries whose iterators fail to close
RECURSIVE prepareWalk(_, _, _, _, _)
prepareWalk(q, meta, closeErr, i, probed) ==
    IF i = 0 THEN [mem |-> 0, probed |-> probed]
    ELSE IF ingestMemtableOverlapsClose(FlushableTable(q[i]), meta, i \in closeErr)
    THEN [mem |-> i, probed |-> probed \cup {i}]
    ELSE prepareWalk(q, meta, closeErr, i - 1, probed \cup {i})

\* the entry of the queue prepare stops at for the files of meta (0:
\* none), when every iterator closes
newestOverlap(q, meta) == prepareWalk(q, meta, {}, Len(q), {}).mem

\* the files of an ingestion as the database holds them
IngestedFiles(meta, paths) ==
    [i \in 1..Len(meta) |->
        File(meta[i], WithGlobalSeqNum(ExtFS[paths[i]].tbl, meta[i].SmallestSeqNum))]

\* an apply that returns early only after a failed prepare
applyStamp_AfterFlushable(r) ==
    LET u == ingestUpdateSeqNum(r.seqNum, r.meta) IN
    IF r.err # ErrNone THEN [r EXCEPT !.pc = "publish"]
    ELSE [r EXCEPT !.meta = u.meta, !.err = u.err,
                   !.pc = IF u.err # ErrNone THEN "publish" ELSE "pick"]

\* the start of apply: nothing more to do after a failed prepare or a
\* flushable ingestion, else the files are stamped
applyStamp(r) ==
    LET u == ingestUpdateSeqNum(r.seqNum, r.meta) IN
    IF r.err # ErrNone \/ r.asFlushable THEN [r EXCEPT !.pc = "publish"]
    ELSE [r EXCEPT !.meta = u.meta, !.err = u.err,
                   !.pc = IF u.err # ErrNone THEN "publish" ELSE "pick"]

\* a forced flush that pins the mutable memtable where it is
forceFlushQueue_NoRotate(q, i, p, fail, seqNum) ==
    LET marked == [q EXCEPT ![i].flushForced = TRUE] IN
    IF fail THEN marked ELSE [marked EXCEPT ![i].waiters = @ \cup {p}]

\* the queue after prepare forces the flush of entry i for the call of p:
\* when the entry is the mutable memtable makeRoomForWrite rotates it out,
\* or fails; the entry is marked flushForced, and apply will wait for it
\* unless the rotation failed
forceFlushQueue(q, i, p, fail, seqNum) ==
    LET marked == [q EXCEPT ![i].flushForced = TRUE]
        waited == [marked EXCEPT ![i].waiters = @ \cup {p}]
    IN IF fail THEN marked
       ELSE IF i = Len(q) THEN rotateMemtable(waited, seqNum)
       ELSE waited

\* a test that lets a queue at the threshold take one more entry
forceFlush_PastThreshold(q, formatOld, disabled) ==
    Len(q) > MemTableStopWritesThreshold \/ formatOld \/ disabled

\* prepare, for an overlapping memtable: the memtable is flushed when the
\* queue has reached the stop-writes threshold, when the format major
\* version is below FormatFlushableIngest (formatOld) or when ingestion as
\* a flushable is disabled
forceFlush(q, formatOld, disabled) ==
    Len(q) > MemTableStopWritesThreshold - 1 \/ formatOld \/ disabled

\* commitPipeline.AllocateSeqNum up to the start of apply: the pipeline
\* waits until every earlier sequence number is visible, allocates
\* len(meta) numbers and calls prepare under commit.mu and d.mu; of the
\* three operands of prepare's || the ones after the first that holds are
\* not read, and are kept FALSE
IngestPrepare(p) ==
    /\ ing[p].pc = "prepare"
    /\ commitMu = 0
    /\ visibleSeqNum = logSeqNum
    /\ logSeqNum + Len(ing[p].meta) - 1 <= MaxSeqNum
    /\ logSeqNum' = logSeqNum + Len(ing[p].meta)
    /\ LET i == newestOverlap(queue, ing[p].meta)
           r == [ing[p] EXCEPT !.seqNum = logSeqNum]
       IN IF i = 0
          THEN /\ SetIng(p, applyStamp(r))
               /\ UNCHANGED <<queue, commitMu, faults>>
          ELSE \E formatOld, disabled \in BOOLEAN :
                 /\ Len(queue) > MemTableStopWritesThreshold - 1 => ~formatOld
                 /\ Len(queue) > MemTableStopWritesThreshold - 1 \/ formatOld
                       => ~disabled
                 /\ IF forceFlush(queue, formatOld, disabled)
                    THEN \E fail \in BOOLEAN :
                           /\ fail => i = Len(queue) /\ faults < MaxFaults
                           /\ faults' = IF fail THEN faults + 1 ELSE faults
                           /\ queue' = forceFlushQueue(queue, i, p, fail, logSeqNum')
                           /\ SetIng(p, applyStamp(
                                  [r EXCEPT !.pinned = TRUE,
                                     !.formatOld = formatOld,
                                     !.disabled = disabled,
                                     !.err = IF fail THEN ErrIO ELSE ErrNone]))
                           /\ UNCHANGED commitMu
                    ELSE /\ SetIng(p, [r EXCEPT !.pc = "wal"])
                         /\ commitMu' = p
                         /\ UNCHANGED <<queue, faults>>
    /\ UNCHANGED <<levels, baseLevel, inProgress, logLock, visibleSeqNum,
                   nextFileNum, nextJobID, objs, extfs, obsoleteTables, fn>>

\* a next sequence number that does not count the files
nextSeqNum_Same(seqNum, meta) == seqNum

\* handleIngestAsFlushable: the sequence number after the batch that names
\* the files, one ingestSST entry for each
nextSeqNum(seqNum, meta) == seqNum + Len(meta)

\* a handler that slides the entry under the mutable memtable
queueIngested_Below(q, entry, seqNum) ==
    Append(Append(SubSeq(q, 1, Len(q) - 1), entry), q[Len(q)])

\* the end of handleIngestAsFlushable: the entry is appended to the queue
\* and the memtable is rotated, the new one starting at seqNum
queueIngested(q, entry, seqNum) == rotateMemtable(Append(q, entry), seqNum)

\* handleIngestAsFlushable once the batch is in the WAL: the files are
\* stamped, queued above every memtable and a new mutable memtable is made
IngestAsFlushable(p) ==
    /\ ing[p].pc = "wal"
    /\ LET r == ingestUpdateSeqNum(ing[p].seqNum, ing[p].meta) IN
       /\ queue' = IF r.err # ErrNone THEN queue
                   ELSE queueIngested(
                          queue, IngestedEntry(IngestedFiles(r.meta, ing[p].paths),
                                               ing[p].seqNum),
                          nextSeqNum(ing[p].seqNum, ing[p].meta))
       /\ SetIng(p, applyStamp([ing[p] EXCEPT !.meta = r.meta, !.err = r.err,
                                              !.asFlushable = TRUE]))
    /\ commitMu' = 0
    /\ UNCHANGED <<levels, baseLevel, inProgress, logLock, logSeqNum, visibleSeqNum,
                   nextFileNum, nextJobID, objs, extfs, obsoleteTables, faults, fn>>

\* apply does not wait
flushWaitDone_NoWait(r) == TRUE

\* apply passes its wait: it pinned no memtable, or the one it pinned has
\* been flushed (<-mem.flushed)
flushWaitDone(r) == ~r.pinned \/ r.memFlushed

\* a version edit with the first file only
ingestApplyEdit_FirstOnly(meta, picked) ==
    [i \in 1..1 |-> [Level |-> picked[i].level, Meta |-> meta[i]]]

\* the version edit ingestApply builds: one new file per descriptor, at
\* the level picked for it
ingestApplyEdit(meta, picked) ==
    [i \in 1..Len(meta) |-> [Level |-> picked[i].level, Meta |-> meta[i]]]

\* a picker error that returns with the manifest lock held
pickFailed_NoUnlock(r) ==
    [r EXCEPT !.pc = "publish", !.err = ErrIO, !.logLocks = @ + 1]

\* ingestApply after a picker error: the manifest lock, taken at the start
\* (logLocks counts logLock calls), is released (logUnlocks counts the
\* releases, those inside logAndApply included) and the error returned
pickFailed(r) ==
    [r EXCEPT !.pc = "publish", !.err = ErrIO, !.logLocks = @ + 1,
              !.logUnlocks = @ + 1]

\* an ingestApply that chooses the levels without taking the manifest lock
IngestApplyPick_Unlocked(p) ==
    /\ ing[p].pc = "pick"
    /\ flushWaitDone(ing[p])
    /\ logLock = 0
    /\ \E bad \in {{}} \cup {{f.meta.FileNum} : f \in UNION {levels[l] : l \in Levels}} :
          LET picked == [i \in 1..Len(ing[p].meta) |->
                            ingestTargetLevel(bad, levels, baseLevel, inProgress,
                                              ing[p].meta[i])]
              failed == \E i \in 1..Len(picked) : picked[i].err # ErrNone
          IN /\ bad # {} => failed /\ faults < MaxFaults
             /\ faults' = IF bad # {} THEN faults + 1 ELSE faults
             /\ IF failed
                THEN /\ SetIng(p, pickFailed(ing[p]))
                     /\ UNCHANGED logLock
                ELSE /\ SetIng(p, [ing[p] EXCEPT !.pc = "log", !.logLocks = @ + 1,
                                     !.ve = ingestApplyEdit(ing[p].meta, picked)])
                     /\ UNCHANGED logLock
    /\ UNCHANGED <<queue, levels, baseLevel, inProgress, commitMu, logSeqNum,
                   visibleSeqNum, nextFileNum, nextJobID, objs, extfs,
                   obsoleteTables, fn>>

\* the wait of apply and ingestApply up to logAndApply: the manifest lock
\* is taken and every file gets its level from the current version
IngestApplyPick(p) ==
    /\ ing[p].pc = "pick"
    /\ flushWaitDone(ing[p])
    /\ logLock = 0
    /\ \E bad \in {{}} \cup {{f.meta.FileNum} : f \in UNION {levels[l] : l \in Levels}} :
          LET picked == [i \in 1..Len(ing[p].meta) |->
                            ingestTargetLevel(bad, levels, baseLevel, inProgress,
                                              ing[p].meta[i])]
              failed == \E i \in 1..Len(picked) : picked[i].err # ErrNone
          IN /\ bad # {} => failed /\ faults < MaxFaults
             /\ faults' = IF bad # {} THEN faults + 1 ELSE faults
             /\ IF failed
                THEN /\ SetIng(p, pickFailed(ing[p]))
                     /\ UNCHANGED logLock
                ELSE /\ SetIng(p, [ing[p] EXCEPT !.pc = "log", !.logLocks = @ + 1,
                                     !.ve = ingestApplyEdit(ing[p].meta, picked)])
                     /\ logLock' = p
    /\ UNCHANGED <<queue, levels, baseLevel, inProgress, commitMu, logSeqNum,
                   visibleSeqNum, nextFileNum, nextJobID, objs, extfs,
                   obsoleteTables, fn>>

\* the files a version edit adds, as [Level, File]
EditFiles(ve, paths) ==
    [i \in 1..Len(ve) |->
        [Level |-> ve[i].Level,
         File |-> File(ve[i].Meta,
                       WithGlobalSeqNum(ExtFS[paths[i]].tbl, ve[i].Meta.SmallestSeqNum))]]

\* logAndApply: the edit is applied and the manifest lock released, or it
\* fails and the manifest lock is released
IngestApplyLog(p) ==
    /\ ing[p].pc = "log"
    /\ logLock = p
    /\ logLock' = 0
    /\ \E fail \in BOOLEAN :
          /\ fail => faults < MaxFaults
          /\ faults' = IF fail THEN faults + 1 ELSE faults
          /\ IF fail
             THEN /\ SetIng(p, [ing[p] EXCEPT !.pc = "publish", !.err = ErrIO,
                                              !.logUnlocks = @ + 1])
                  /\ UNCHANGED <<levels, baseLevel>>
             ELSE /\ SetIng(p, [ing[p] EXCEPT !.pc = "publish", !.veSet = TRUE,
                                              !.logUnlocks = @ + 1])
                  /\ levels' = AddFiles(levels, EditFiles(ing[p].ve, ing[p].paths))
                  /\ baseLevel' \in BaseLevels(levels')
    /\ UNCHANGED <<queue, inProgress, commitMu, logSeqNum, visibleSeqNum,
                   nextFileNum, nextJobID, objs, extfs, obsoleteTables, fn>>

\* a TableIngestInfo that leaves Err unset
TableIngestInfo_NoErr(r) ==
    [JobID |-> r.jobID,
     GlobalSeqNum |-> r.meta[1].SmallestSeqNum,
     Err |-> ErrNone,
     flushable |-> r.asFlushable,
     Tables |-> <<>>]

\* the TableIngestInfo DB.ingest builds
TableIngestInfo(r) ==
    [JobID |-> r.jobID,
     GlobalSeqNum |-> r.meta[1].SmallestSeqNum,
     Err |-> r.err,
     flushable |-> r.asFlushable,
     Tables |-> IF r.veSet
                THEN [i \in 1..Len(r.ve) |->
                        [FileNum |-> r.ve[i].Meta.FileNum, Level |-> r.ve[i].Level]]
                ELSE IF r.asFlushable
                THEN [i \in 1..Len(r.meta) |->
                        [FileNum |-> r.meta[i].FileNum, Level |-> -1]]
                ELSE <<>>]

\* the commit pipeline publishes the ingestion's sequence numbers, and with
\* them the batches queued behind it; then the installed objects are
\* removed after an error, the original paths after a success, and the
\* event is emitted
IngestFinish(p) ==
    /\ ing[p].pc = "publish"
    /\ visibleSeqNum' = logSeqNum
    /\ IF ing[p].err # ErrNone
       THEN /\ objs' = ingestCleanup(objs, ing[p].meta, {}).objs
            /\ UNCHANGED extfs
       ELSE /\ extfs' = extfs \ {ing[p].paths[i] : i \in 1..Len(ing[p].paths)}
            /\ UNCHANGED objs
    /\ SetIng(p, [ing[p] EXCEPT !.pc = "done", !.ret = ing[p].err,
                                !.events = <<TableIngestInfo(ing[p])>>])
    /\ UNCHANGED <<queue, levels, baseLevel, inProgress, logLock, commitMu,
                   logSeqNum, nextFileNum, nextJobID, obsoleteTables, faults, fn>>

(***************************************************************************)
(* The database with its writers, flusher, compactions and ingestions.     *)
(***************************************************************************)
Init ==
    /\ InitDB
    /\ fn = <<>>

Next ==
    \/ \E k \in UserKeys : Write(k)
    \/ RotateMemtable
    \/ Flush
    \/ \E l \in Levels : \E f \in levels[l] : CompactionStart(l, f)
    \/ \E c \in inProgress : CompactionDone(c)
    \/ \E p \in Procs : \E paths \in IngestInputs : IngestStart(p, paths)
    \/ \E p \in Procs : IngestPrepare(p)
    \/ \E p \in Procs : IngestAsFlushable(p)
    \/ \E p \in Procs : IngestApplyPick(p)
    \/ \E p \in Procs : IngestApplyLog(p)
    \/ \E p \in Procs : IngestFinish(p)

Spec == Init /\ [][Next]_vars

\* the database without compactions: writes, memtable rotations, flushes
\* and ingestions
NextNoCompact ==
    \/ \E k \in UserKeys : Write(k)
    \/ RotateMemtable
    \/ Flush
    \/ \E p \in Procs : \E paths \in IngestInputs : IngestStart(p, paths)
    \/ \E p \in Procs : IngestPrepare(p)
    \/ \E p \in Procs : IngestAsFlushable(p)
    \/ \E p \in Procs : IngestApplyPick(p)
    \/ \E p \in Procs : IngestApplyLog(p)
    \/ \E p \in Procs : IngestFinish(p)

SpecNoCompact == Init /\ [][NextNoCompact]_vars

\* two goroutines that call Ingest, and the paths each is given; no
\* failure is injected (InitConcurrent starts with the faults used up)
ConcurrentProcs == {1, 2}
ConcurrentInputs == <<<<1>>, <<2>>>>

InitConcurrent ==
    /\ queue = <<MemEntry(EmptyTable, 1)>>
    /\ levels = EmptyVersion
    /\ baseLevel = numLevels - 1
    /\ inProgress = {}
    /\ logLock = 0
    /\ commitMu = 0
    /\ logSeqNum = 1
    /\ visibleSeqNum = 1
    /\ nextFileNum = 1
    /\ nextJobID = 1
    /\ objs = {}
    /\ extfs = 1..Len(ExtFS)
    /\ obsoleteTables = {}
    /\ ing = [p \in ConcurrentProcs |-> IdleIngest]
    /\ faults = MaxFaults
    /\ fn = <<>>

\* the database with two concurrent callers of Ingest
NextConcurrent ==
    \/ \E k \in UserKeys : Write(k)
    \/ RotateMemtable
    \/ Flush
    \/ \E l \in Levels : \E f \in levels[l] : CompactionStart(l, f)
    \/ \E c \in inProgress : CompactionDone(c)
    \/ \E p \in ConcurrentProcs : IngestStart(p, ConcurrentInputs[p])
    \/ \E p \in ConcurrentProcs : IngestPrepare(p)
    \/ \E p \in ConcurrentProcs : IngestAsFlushable(p)
    \/ \E p \in ConcurrentProcs : IngestApplyPick(p)
    \/ \E p \in ConcurrentProcs : IngestApplyLog(p)
    \/ \E p \in ConcurrentProcs : IngestFinish(p)

SpecConcurrent == InitConcurrent /\ [][NextConcurrent]_vars


(***************************************************************************)
(* What a reader sees.                                                     *)
(***************************************************************************)
LevelFiles == UNION {levels[l] : l \in Levels}
QueueFiles ==
    UNION {{queue[i].files[j] : j \in 1..Len(queue[i].files)} : i \in 1..Len(queue)}
ReaderView == LevelFiles \cup QueueFiles

\* the file numbers of the non-empty files of a call
CallFileNums(p) == {ing[p].meta[i].FileNum : i \in 1..Len(ing[p].meta)}

\* file i of call p is in the view at its stamped sequence number
SeenStamped(p, i) ==
    \E f \in ReaderView :
        /\ f.meta.FileNum = ing[p].meta[i].FileNum
        /\ f.meta.SmallestSeqNum = ing[p].seqNum + i - 1
        /\ f.meta.LargestSeqNum = ing[p].seqNum + i - 1
        /\ TableSeqNums(f.tbl) = {ing[p].seqNum + i - 1}

MemtableOrdering ==
    \A p \in Procs :
        ing[p].pc = "log" /\ ing[p].pinned =>
            /\ ing[p].memFlushed
            /\ \A i \in 1..Len(queue) : p \notin queue[i].waiters

MemtableOrderingWitness ==
    \E p \in Procs : ing[p].pc = "log" /\ ing[p].pinned /\ ing[p].memFlushed

\* the user-key ranges of two files are disjoint
Disjoint(f, g) ==
    \/ f.Largest.UserKey < g.Smallest.UserKey
    \/ f.Largest.UserKey = g.Smallest.UserKey /\ IsExclusiveSentinel(f.Largest)
    \/ g.Largest.UserKey < f.Smallest.UserKey
    \/ g.Largest.UserKey = f.Smallest.UserKey /\ IsExclusiveSentinel(g.Largest)

\* C4 (per-level non-overlap): the files of every level > 0 of the live
\* version are pairwise non-overlapping
LevelNonOverlap ==
    \A l \in Levels \ {0} : \A f, g \in levels[l] :
        f # g => Disjoint(f.meta, g.meta)

\* a call has placed its two files at the same level > 0, next to each other
LevelNonOverlapWitness ==
    \E p \in Procs :
        /\ ing[p].veSet
        /\ Len(ing[p].ve) = 2
        /\ ing[p].ve[1].Level = ing[p].ve[2].Level
        /\ ing[p].ve[1].Level > 0
        /\ \A i \in 1..2 : \E f \in levels[ing[p].ve[1].Level] :
              f.meta.FileNum = ing[p].ve[i].Meta.FileNum

\* the entries of a table at a depth: a point key, or a user key a range
\* deletion covers
TableEntries(tbl, depth, fileNum) ==
    {[uk |-> k.UserKey, seq |-> k.SeqNum, depth |-> depth, file |-> fileNum]
        : k \in tbl.pts}
    \cup {[uk |-> x[2], seq |-> x[1].SeqNum, depth |-> depth, file |-> fileNum]
        : x \in {y \in tbl.dels \X UserKeys : y[1].Start <= y[2] /\ y[2] < y[1].End}}

\* the files of L0 above f: L0 is read newest first
L0Above(f) ==
    {g \in levels[0] :
        \/ g.meta.LargestSeqNum > f.meta.LargestSeqNum
        \/ /\ g.meta.LargestSeqNum = f.meta.LargestSeqNum
           /\ g.meta.FileNum > f.meta.FileNum}

\* every entry of the database with its depth: the queue from its newest
\* entry, then L0 from its newest file, then the levels
Entries ==
    UNION {TableEntries(FlushableTable(queue[i]), Len(queue) - i, 0)
              : i \in 1..Len(queue)}
    \cup UNION {TableEntries(f.tbl, Len(queue) + Cardinality(L0Above(f)),
                             f.meta.FileNum) : f \in levels[0]}
    \cup UNION {UNION {TableEntries(f.tbl, Len(queue) + Cardinality(levels[0]) + l,
                                    f.meta.FileNum) : f \in levels[l]}
                   : l \in Levels \ {0}}

CleanupOnFailure ==
    \A p \in Procs :
        ing[p].pc = "done" /\ ing[p].ret # ErrNone =>
            objs \cap {ing[p].pending[i] : i \in 1..Len(ing[p].pending)} = {}

\* C10 (terminal event) as the specification words it: a call that has
\* returned has emitted one TableIngested event, whose Err is the error
\* returned
TerminalEvent ==
    \A p \in Procs :
        ing[p].pc = "done" =>
            /\ Len(ing[p].events) = 1
            /\ ing[p].events[1].Err = ing[p].ret

\* C10 (terminal event): a call that was given sequence numbers by the
\* commit pipeline has, when it returns, emitted one TableIngested event
\* whose Err is the error returned and whose job is the call's; a call that
\* returns before that has emitted none
TerminalEventAfterAllocate ==
    \A p \in Procs :
        ing[p].pc = "done" =>
            IF ing[p].seqNum > 0
            THEN /\ Len(ing[p].events) = 1
                 /\ ing[p].events[1].Err = ing[p].ret
                 /\ ing[p].events[1].JobID = ing[p].jobID
            ELSE ing[p].events = <<>>

\* a call has returned an error after its sequence numbers were allocated
TerminalEventWitness ==
    \E p \in Procs :
        /\ ing[p].pc = "done"
        /\ ing[p].seqNum > 0
        /\ ing[p].ret # ErrNone
        /\ Len(ing[p].events) = 1

\* the paths the caller passed
InputPaths(p) == {ing[p].args[i] : i \in 1..Len(ing[p].args)}

\* C11 (removal of the input paths): when a call returns without error, no
\* path of the caller's list is left in the file system
RemovesInputPaths ==
    \A p \in Procs :
        ing[p].pc = "done" /\ ing[p].ret = ErrNone => extfs \cap InputPaths(p) = {}

\* the positions of the caller's list whose file has a point key, a range
\* deletion or a range key
NonEmptyArgs(p) == {i \in 1..Len(ing[p].args) : ExtFS[ing[p].args[i]].tbl # EmptyTable}

\* what a call that returned without error shows of its files: nothing was
\* allocated when all are empty, else the version edit and the event hold
\* the non-empty files only
ElidedWhenDone(p) ==
    IF NonEmptyArgs(p) = {}
    THEN ing[p].seqNum = 0 /\ ing[p].events = <<>> /\ ing[p].meta = <<>>
    ELSE /\ Len(ing[p].events) = 1
         /\ Len(ing[p].events[1].Tables) = Cardinality(NonEmptyArgs(p))
         /\ {ing[p].events[1].Tables[i].FileNum
                : i \in 1..Len(ing[p].events[1].Tables)}
               = {ing[p].pending[i] : i \in NonEmptyArgs(p)}
         /\ ~ing[p].asFlushable =>
               /\ ing[p].veSet
               /\ {ing[p].ve[i].Meta.FileNum : i \in 1..Len(ing[p].ve)}
                     = {ing[p].pending[i] : i \in NonEmptyArgs(p)}

\* C12 (empty-file elision): a file without keys is dropped without error;
\* the commit pipeline is asked for as many sequence numbers as there are
\* non-empty files; the version edit and TableIngested.Tables hold the
\* non-empty files only; a call whose files are all empty succeeds and
\* allocates nothing
EmptyFileElision ==
    /\ [](\A p \in Procs :
            /\ ing[p].pc = "done" /\ ing[p].ret = ErrNone => ElidedWhenDone(p)
            /\ ing[p].pc = "done" /\ NonEmptyArgs(p) = {}
                 /\ InputPaths(p) \subseteq extfs => ing[p].ret = ErrNone)
    /\ [][\A p \in Procs :
            ing[p].pc = "prepare" /\ ing'[p].pc # "prepare" =>
                logSeqNum' = logSeqNum + Cardinality(NonEmptyArgs(p))]_vars

\* a call of an empty and a non-empty file has succeeded with one sequence
\* number and one table reported
EmptyFileElisionWitness ==
    \E p \in Procs :
        /\ ing[p].pc = "done"
        /\ ing[p].ret = ErrNone
        /\ Len(ing[p].args) = 2
        /\ Cardinality(NonEmptyArgs(p)) = 1
        /\ Len(ing[p].events) = 1
        /\ Len(ing[p].events[1].Tables) = 1
        /\ logSeqNum = ing[p].seqNum + 1

\* every key of a table: its point keys and the start keys of its spans
AllKeys(tbl) == tbl.pts \cup {SpanSmallestKey(sp) : sp \in tbl.dels \cup tbl.rks}

\* the user keys a table covers
Covered(tbl) ==
    {k.UserKey : k \in tbl.pts}
    \cup {u \in UserKeys : \E sp \in tbl.dels \cup tbl.rks : sp.Start <= u /\ u < sp.End}

\* the key ranges of two tables meet
RangesMeet(t1, t2) ==
    /\ Covered(t1) # {} /\ Covered(t2) # {}
    /\ SetMin(Covered(t1)) <= SetMax(Covered(t2))
    /\ SetMin(Covered(t2)) <= SetMax(Covered(t1))

\* every file of the list can be read and is valid, and two of them overlap
OverlappingInput(paths) ==
    /\ \A i \in 1..Len(paths) :
          /\ paths[i] \in extfs
          /\ ExtFS[paths[i]].formatOK /\ ExtFS[paths[i]].readOK
          /\ \A k \in AllKeys(ExtFS[paths[i]].tbl) : k.SeqNum = 0 /\ k.Kind # KindInvalid
    /\ \E i, j \in 1..Len(paths) :
          i # j /\ RangesMeet(ExtFS[paths[i]].tbl, ExtFS[paths[j]].tbl)

\* C13 (failures before link): a call whose load or sort-and-verify fails
\* returns the error at once and changes nothing but the next file number
\* and the next job id; a call given readable, valid files of which two
\* overlap fails so, with the Overlap error
NoSideEffectsBeforeLink ==
    [][\A p \in Procs :
         nextJobID' # nextJobID /\ ing'[p] # ing[p] =>
            /\ ing'[p].pc = "done" /\ ing'[p].ret # ErrNone
                  /\ (ing'[p].meta = <<>> \/ ing'[p].ret = ErrOverlap) =>
                  /\ objs' = objs /\ extfs' = extfs
                  /\ logSeqNum' = logSeqNum /\ visibleSeqNum' = visibleSeqNum
                  /\ queue' = queue /\ levels' = levels
                  /\ ing'[p].seqNum = 0 /\ ing'[p].events = <<>>
                  /\ nextFileNum' = nextFileNum + Len(ing'[p].args)
                  /\ nextJobID' = nextJobID + 1
            /\ OverlappingInput(ing'[p].args) =>
                  ing'[p].pc = "done" /\ ing'[p].ret = ErrOverlap]_vars

\* a call has failed with the Overlap error while the provider holds the
\* objects of an earlier call
NoSideEffectsBeforeLinkWitness ==
    \E p \in Procs :
        /\ ing[p].pc = "done"
        /\ ing[p].ret = ErrOverlap
        /\ objs # {}
        /\ InputPaths(p) \subseteq extfs


\* the sequence numbers of the call of p, once allocated
IngestSeqNums(p) ==
    IF ing[p].seqNum = 0 THEN {}
    ELSE ing[p].seqNum..(ing[p].seqNum + Len(ing[p].meta) - 1)

\* the keys written to the memtables of the queue
MemKeys == UNION {queue[i].tbl.pts : i \in 1..Len(queue)}

\* C17 (sequence ordering): the sequence numbers of an ingestion are the n
\* numbers from its base on, one for each file in order; the base is above
\* every sequence number visible or written when they are allocated; every
\* key written later has a sequence number above them; the memtable made
\* after a flushable ingestion starts at base + n
SequenceOrdering ==
    /\ [](\A p \in Procs :
            /\ ing[p].seqNum > 0 => logSeqNum >= ing[p].seqNum + Len(ing[p].meta)
            /\ ing[p].pc = "done" /\ ing[p].ret = ErrNone =>
                  \A i \in 1..Len(ing[p].meta) :
                      ing[p].meta[i].SmallestSeqNum = ing[p].seqNum + i - 1)
    /\ [](\A i \in 1..Len(queue) :
            queue[i].ingested =>
                /\ i < Len(queue)
                /\ queue[i + 1].logSeqNum = queue[i].logSeqNum + Len(queue[i].files)
                /\ \A j \in 1..Len(queue[i].files) :
                      queue[i].files[j].meta.SmallestSeqNum = queue[i].logSeqNum + j - 1
                /\ \A j \in (i + 1)..Len(queue) : \A k \in queue[j].tbl.pts :
                      k.SeqNum >= queue[i + 1].logSeqNum)
    /\ [][\A p \in Procs :
            /\ ing[p].seqNum = 0 /\ ing'[p].seqNum > 0 =>
                  /\ ing'[p].seqNum = logSeqNum
                  /\ ing'[p].seqNum >= visibleSeqNum
                  /\ logSeqNum' = logSeqNum + Len(ing'[p].meta)
                  /\ \A e \in Entries : e.seq < ing'[p].seqNum
            /\ \A k \in MemKeys' \ MemKeys : \A n \in IngestSeqNums(p) : k.SeqNum > n]_vars

\* a key was written to the memtable made by a flushable ingestion, which
\* followed an earlier write
SequenceOrderingWitness ==
    \E i \in 1..Len(queue) :
        /\ queue[i].ingested
        /\ queue[i].logSeqNum > 1
        /\ i < Len(queue)
        /\ queue[i + 1].tbl.pts # {}


\* the metadata of the files of an ingested flushable
EntryMeta(e) == [k \in 1..Len(e.files) |-> e.files[k].meta]

\* C18 (documented flush-and-wait): the files of a call are in the database,
\* and the call returns, only after every memtable they overlap has been
\* flushed: no ingested flushable sits in the queue behind a memtable its
\* files overlap, and a call that pinned a memtable has seen it flushed
\* before its version edit is built and before it returns without error
FlushAndWait ==
    /\ \A j \in 1..Len(queue) : \A i \in 1..(j - 1) :
           queue[j].ingested /\ ~queue[i].ingested =>
               ~ingestMemtableOverlaps(queue[i].tbl, EntryMeta(queue[j]))
    /\ \A p \in Procs :
           /\ ing[p].pinned
           /\ ing[p].veSet \/ (ing[p].pc = "done" /\ ing[p].ret = ErrNone)
           => ing[p].memFlushed


\* C19 (prepare decision): a prepare that finds an overlapping memtable
\* forces its flush exactly when the queue has reached the stop-writes
\* threshold, the format major version is below the flushable-ingest
\* minimum, or flushable ingestion is disabled, and otherwise goes on to
\* install the files as a flushable entry; it takes exactly one of the two
\* ways, and only the second way makes a flushable ingestion
PrepareDecision ==
    [][\A p \in Procs :
         /\ ing[p].pc = "prepare" /\ ing'[p].pc # "prepare"
            /\ newestOverlap(queue, ing[p].meta) # 0 =>
               LET i == newestOverlap(queue, ing[p].meta)
                   forced == ing'[p].pinned /\ queue'[i].flushForced
                   flushable == ing'[p].pc = "wal" /\ queue' = queue
               IN /\ forced # flushable
                  /\ forced <=> \/ Len(queue) >= MemTableStopWritesThreshold
                                \/ ing'[p].formatOld
                                \/ ing'[p].disabled
         /\ ing[p].pc = "wal" /\ ing'[p].pc # "wal" =>
               /\ ing'[p].asFlushable /\ ~ing'[p].pinned
               /\ ing'[p].err = ErrNone =>
                     \E j \in 1..Len(queue') :
                         /\ queue'[j].ingested
                         /\ EntryMeta(queue'[j]) = ing'[p].meta
         /\ ing'[p].asFlushable /\ ~ing[p].asFlushable => ing[p].pc = "wal"
      ]_vars

\* a call has forced a flush and seen it because flushable ingestion was
\* disabled, with a queue below the threshold
PrepareDecisionWitness ==
    \E p \in Procs :
        /\ ing[p].pinned /\ ing[p].memFlushed
        /\ ing[p].disabled /\ ~ing[p].formatOld
        /\ ing[p].pc = "done" /\ ing[p].ret = ErrNone


\* the call of p has installed its files as a flushable entry
InstalledAsFlushable(p) == ing[p].asFlushable /\ ing[p].err = ErrNone

\* C20 (flushable path outcome): once prepare has installed the files as a
\* flushable entry, apply returns at once: the call pins and awaits no
\* memtable, picks no level and builds no version edit, and its
\* descriptors stay as installed; the event lists every non-empty file at
\* level -1 with the flushable flag; and the files are in the queue, with
\* their sequence numbers, before those numbers are made visible
FlushablePathOutcome ==
    /\ [](\A p \in Procs : InstalledAsFlushable(p) =>
            /\ ing[p].pc \in {"publish", "done"}
            /\ ~ing[p].pinned /\ ~ing[p].memFlushed
            /\ ing[p].ve = <<>> /\ ~ing[p].veSet
            /\ \A i \in 1..Len(queue) : p \notin queue[i].waiters
            /\ ing[p].pc = "done" =>
                  LET e == ing[p].events[1] IN
                  /\ e.flushable /\ e.Err = ErrNone
                  /\ e.Tables = [i \in 1..Len(ing[p].meta) |->
                                   [FileNum |-> ing[p].meta[i].FileNum,
                                    Level |-> -1]])
    /\ [][\A p \in Procs :
            /\ InstalledAsFlushable(p)' /\ ~InstalledAsFlushable(p) =>
                  /\ \A i \in 1..Len(ing'[p].meta) :
                        \E f \in QueueFiles' :
                            /\ f.meta = ing'[p].meta[i]
                            /\ f.meta.SmallestSeqNum = ing[p].seqNum + i - 1
                            /\ TableSeqNums(f.tbl) = {ing[p].seqNum + i - 1}
                  /\ visibleSeqNum' <= ing[p].seqNum
            /\ InstalledAsFlushable(p) /\ ing[p].pc = "publish" /\ ing'[p] # ing[p] =>
                  /\ ing'[p].pc = "done" /\ ing'[p].ret = ErrNone
                  /\ ing'[p].meta = ing[p].meta
                  /\ levels' = levels /\ queue' = queue
                  /\ visibleSeqNum' >= ing[p].seqNum + Len(ing[p].meta)
         ]_vars

\* a flushable ingestion of two files has returned while its files and a
\* memtable written before them are still in the queue
FlushablePathOutcomeWitness ==
    \E p \in Procs :
        /\ InstalledAsFlushable(p)
        /\ ing[p].pc = "done"
        /\ Len(ing[p].meta) = 2
        /\ \A i \in 1..2 : \E f \in QueueFiles : f.meta = ing[p].meta[i]
        /\ queue[1].tbl.pts # {}

\* the call of p built its version edit and logAndApply failed
LogApplyFailed(p) ==
    ing[p].ve # <<>> /\ ~ing[p].veSet /\ ing[p].err # ErrNone

PickerConsistency ==
    /\ [](\A p \in DOMAIN ing : ing[p].pc = "log" => logLock = p)
    /\ [][\A p \in DOMAIN ing :
            /\ ing[p].pc = "log" /\ ing'[p].pc = "log" =>
                  /\ levels' = levels
                  /\ baseLevel' = baseLevel
                  /\ inProgress' = inProgress
            /\ ing[p].pc = "log" /\ ing'[p].veSet =>
                  /\ \A i \in 1..Len(ing[p].meta) :
                        ing[p].ve[i].Level =
                            ingestTargetLevel({}, levels, baseLevel, inProgress,
                                              ing[p].meta[i]).level
                  /\ levels' = AddFiles(levels, EditFiles(ing[p].ve, ing[p].paths))
            /\ ing[p].pc = "pick" /\ ing'[p].pc = "log" =>
                  \A q \in DOMAIN ing \ {p} :
                      /\ ing[q].pc # "log"
                      /\ ing[q].veSet =>
                            CallFileNums(q) \subseteq
                                {f.meta.FileNum : f \in LevelFiles}
                                    \cup obsoleteTables
         ]_vars

\* a call holds the manifest lock with its levels chosen, after the other
\* call has published a file whose range holds its own; the two files are
\* given different levels
PickerConsistencyWitness ==
    \E p, q \in DOMAIN ing :
        /\ p # q
        /\ ing[p].pc = "log"
        /\ ing[q].veSet
        /\ CallFileNums(q) \subseteq {f.meta.FileNum : f \in LevelFiles}
        /\ ing[p].ve[1].Level # ing[q].ve[1].Level

\* C24 (durability ordering): a call that is writing the WAL record of a
\* flushable ingestion, or is inside logAndApply, or has its files in the
\* queue or in the version, has had its linked tables synced before
DurabilityOrdering ==
    \A p \in Procs :
        \/ ing[p].pc \in {"wal", "log"}
        \/ ing[p].asFlushable
        \/ ing[p].veSet
        \/ \E f \in ReaderView : f.meta.FileNum \in CallFileNums(p)
        => ing[p].synced

\* a call is inside logAndApply with its tables linked and synced
DurabilityOrderingWitness ==
    \E p \in Procs :
        /\ ing[p].pc = "log"
        /\ ing[p].synced
        /\ CallFileNums(p) \subseteq objs

\* C25 (manifest lock discipline): a call takes the manifest lock at most
\* once; while it is inside ingestApply it holds the lock and has not
\* released it; once ingestApply has returned, by a picker error, a failed
\* logAndApply or a successful one, the lock was released exactly once and
\* the call does not hold it
ManifestLockDiscipline ==
    \A p \in Procs :
        /\ ing[p].logLocks <= 1
        /\ ing[p].logUnlocks <= ing[p].logLocks
        /\ ing[p].pc = "log" =>
              ing[p].logLocks = 1 /\ ing[p].logUnlocks = 0 /\ logLock = p
        /\ ing[p].pc # "log" =>
              ing[p].logUnlocks = ing[p].logLocks /\ logLock # p
        /\ ing[p].veSet \/ ing[p].ve # <<>> => ing[p].logLocks = 1

\* ingestApply has returned a picker error with the lock released
ManifestLockDisciplineWitness ==
    \E p \in Procs :
        /\ ing[p].pc = "done"
        /\ ing[p].ret # ErrNone
        /\ ing[p].ve = <<>>
        /\ ing[p].logLocks = 1 /\ ing[p].logUnlocks = 1
        /\ logLock = 0

\* apply of the call of p is blocked on the flushed signal of a memtable
BlockedOnFlush(p) ==
    ing[p].pc = "pick" /\ ing[p].pinned /\ ~ing[p].memFlushed

\* the rotation of the mutable memtable failed in prepare of the call of p
RotationFailed(p) ==
    ing[p].pinned /\ ing[p].err # ErrNone /\ ing[p].logLocks = 0

\* C27 (forced-flush path): prepare rotates the mutable memtable out before
\* it pins it, so the memtable apply is blocked on is immutable, is marked
\* flushForced and can be flushed (the queue holds a newer entry); after a
\* failed rotation apply does not wait, no version edit is built or
\* published, and the call returns the rotation's error
ForcedFlushPath ==
    /\ [](\A p \in Procs :
            /\ BlockedOnFlush(p) =>
                  \E i \in 1..Len(queue) :
                      /\ p \in queue[i].waiters
                      /\ i < Len(queue)
                      /\ queue[i].flushForced
            /\ RotationFailed(p) =>
                  /\ ing[p].pc \in {"publish", "done"}
                  /\ \A i \in 1..Len(queue) : p \notin queue[i].waiters
                  /\ ~ing[p].memFlushed
                  /\ ing[p].ve = <<>> /\ ~ing[p].veSet
                  /\ \A f \in ReaderView : f.meta.FileNum \notin CallFileNums(p)
                  /\ ing[p].pc = "done" => ing[p].ret = ErrIO)
    /\ [][\A p \in Procs :
            ing'[p].pinned /\ ~ing[p].pinned /\ ing'[p].err = ErrNone =>
                LET i == newestOverlap(queue, ing[p].meta) IN
                /\ i # 0
                /\ p \in queue'[i].waiters /\ queue'[i].flushForced
                /\ Len(queue') = IF i = Len(queue) THEN Len(queue) + 1
                                 ELSE Len(queue)
                /\ SubSeq(queue', 1, Len(queue)) =
                       [queue EXCEPT ![i].flushForced = TRUE,
                                     ![i].waiters = @ \cup {p}]
         ]_vars

\* apply is blocked on a memtable that was the mutable one when prepare
\* found it: it now has an empty mutable memtable after it
ForcedFlushPathWitness ==
    \E p \in Procs :
        /\ BlockedOnFlush(p)
        /\ Len(queue) >= 2
        /\ p \in queue[Len(queue) - 1].waiters
        /\ queue[Len(queue) - 1].tbl.pts # {}
        /\ queue[Len(queue)].tbl = EmptyTable

\* the steps of the commit pipeline, of DB.ingest and of logAndApply go on
\* when they can, and a flush that can run does
Fairness ==
    /\ WF_vars(Flush)
    /\ \A p \in Procs :
          /\ WF_vars(IngestPrepare(p))
          /\ WF_vars(IngestAsFlushable(p))
          /\ WF_vars(IngestApplyPick(p))
          /\ WF_vars(IngestApplyLog(p))
          /\ WF_vars(IngestFinish(p))

\* the paths given to the calls of the fair specification
LiveInputs == {<<3, 6>>}

NextLive ==
    \/ \E k \in UserKeys : Write(k)
    \/ RotateMemtable
    \/ Flush
    \/ \E l \in Levels : \E f \in levels[l] : CompactionStart(l, f)
    \/ \E c \in inProgress : CompactionDone(c)
    \/ \E p \in Procs : \E paths \in LiveInputs : IngestStart(p, paths)
    \/ \E p \in Procs : IngestPrepare(p)
    \/ \E p \in Procs : IngestAsFlushable(p)
    \/ \E p \in Procs : IngestApplyPick(p)
    \/ \E p \in Procs : IngestApplyLog(p)
    \/ \E p \in Procs : IngestFinish(p)

SpecLive == Init /\ [][NextLive]_vars /\ Fairness

\* the sequence numbers left do not suffice for the call of p
OutOfSeqNums(p) ==
    ing[p].pc = "prepare" /\ logSeqNum + Len(ing[p].meta) - 1 > MaxSeqNum

FlushableQueueShape ==
    [][\A p \in Procs :
         InstalledAsFlushable(p)' /\ ~InstalledAsFlushable(p) =>
             LET n == Len(queue)
                 e == queue'[n + 1]
             IN /\ Len(queue') = n + 2
                /\ SubSeq(queue', 1, n) = queue
                /\ e.ingested /\ e.flushForced /\ e.waiters = {}
                /\ e.logSeqNum = ing[p].seqNum
                /\ EntryMeta(e) = ing'[p].meta
                /\ \A i \in 1..Len(e.files) :
                      /\ e.refs[i] = 1
                      /\ e.files[i].meta.SmallestSeqNum = ing[p].seqNum + i - 1
                /\ Len(e.refs) = Len(ing[p].meta)
                /\ queue'[n + 2] =
                       MemEntry(EmptyTable, ing[p].seqNum + Len(ing[p].meta))
      ]_vars

\* an ingested entry of two files sits between the memtable its files
\* overlap and an empty mutable memtable
FlushableQueueShapeWitness ==
    /\ Len(queue) = 3
    /\ queue[1].tbl.pts # {}
    /\ queue[2].ingested /\ Len(queue[2].files) = 2
    /\ ingestMemtableOverlaps(queue[1].tbl, EntryMeta(queue[2]))
    /\ queue[3] = MemEntry(EmptyTable, queue[2].logSeqNum + 2)

\* C32 (event sequence number): whenever a TableIngested event is emitted,
\* its GlobalSeqNum is the base sequence number the commit pipeline
\* allocated to the call, after a success and after a failure alike
EventSeqNum ==
    \A p \in DOMAIN ing :
        ing[p].pc = "done" /\ ing[p].events # <<>> =>
            ing[p].events[1].GlobalSeqNum = ing[p].seqNum

\* the results the picker can give for the files of the call of p in the
\* current version, for every iterator that may fail
PickResults(p) ==
    {ingestTargetLevel(bad, levels, baseLevel, inProgress, ing[p].meta[i]) :
        bad \in {{}} \cup {{f.meta.FileNum} : f \in UNION {levels[l] : l \in Levels}},
        i \in 1..Len(ing[p].meta)}

\* C35 (picker level range): the level the picker returns is 0 or a level
\* from the base level to the last one, never a level strictly between 0
\* and the base level; with an iterator error it returns an error with
\* level 0, and ingestApply then builds no version edit and leaves the
\* version as it is
PickerLevelRange ==
    /\ [](\A p \in DOMAIN ing :
            ing[p].pc = "pick" =>
               \A r \in PickResults(p) :
                  /\ r.level = 0 \/ r.level \in baseLevel..(numLevels - 1)
                  /\ r.err # ErrNone => r.level = 0)
    /\ [][\A p \in DOMAIN ing :
            ing[p].pc = "pick" /\ ing'[p].pc # "pick" =>
               /\ ing'[p].pc = "log" =>
                     /\ ing'[p].err = ErrNone
                     /\ Len(ing'[p].ve) = Len(ing[p].meta)
                     /\ \A i \in 1..Len(ing'[p].ve) :
                           \/ ing'[p].ve[i].Level = 0
                           \/ ing'[p].ve[i].Level \in baseLevel..(numLevels - 1)
               /\ ing'[p].pc # "log" =>
                     /\ ing'[p].pc = "publish"
                     /\ ing'[p].err # ErrNone
                     /\ ing'[p].ve = <<>> /\ ~ing'[p].veSet
                     /\ levels' = levels]_vars

\* with the base level at the last level and nothing in L0 and L1, a file
\* got level 0 because a file of the last level holds a key within its
\* bounds: L1, free, was not considered
PickerLevelRangeWitness ==
    \E p \in DOMAIN ing :
        /\ ing[p].pc = "log"
        /\ baseLevel = numLevels - 1
        /\ levels[0] = {} /\ levels[1] = {}
        /\ ing[p].ve[1].Level = 0

(***************************************************************************)
(* The loader, the sort and the stamping applied alone to lists of tables. *)
(***************************************************************************)
\* the longest list of files
MaxFiles == 3

\* the tables of the files: point keys from s to l, a range deletion or a
\* range key [s, e), tables of several kinds, an empty one, and tables with
\* a sequence number or the kind Invalid at their first, last or a middle key
FileTables ==
    {PointTable({s, l}) : s, l \in UserKeys}
    \cup {Table({}, {Span(b[1], b[2], 0, KindRangeDelete)}, {})
            : b \in {c \in UserKeys \X UserKeys : c[1] < c[2]}}
    \cup {Table({}, {}, {Span(0, MaxKey, 0, KindRangeKeySet)}),
          Table({MakeInternalKey(1, 0, KindSet)}, {},
                {Span(0, 1, 0, KindRangeKeySet)}),
          Table({MakeInternalKey(0, 0, KindDelete)},
                {Span(1, MaxKey, 0, KindRangeDelete)}, {}),
          EmptyTable,
          Table({MakeInternalKey(0, 1, KindSet)}, {}, {}),
          Table({MakeInternalKey(0, 0, KindSet), MakeInternalKey(1, 1, KindSet),
                 MakeInternalKey(MaxKey, 0, KindSet)}, {}, {}),
          Table({MakeInternalKey(0, 0, KindSet),
                 MakeInternalKey(1, 0, KindInvalid)}, {}, {})}

TableLists ==
    UNION {[1..n -> FileTables] : n \in 1..MaxFiles}

NoResult == [err |-> ErrNone, meta |-> <<>>, paths |-> <<>>]

InitFiles ==
    /\ InitDB
    /\ fn \in {[pc |-> "load", tables |-> ts, l |-> NoResult, s |-> NoResult,
                seqNum |-> 0, u |-> [err |-> ErrNone, meta |-> <<>>]]
                 : ts \in TableLists}

FilesLoad ==
    /\ fn.pc = "load"
    /\ LET n == Len(fn.tables)
           l == ingestLoad([i \in 1..n |-> ExternalFile(fn.tables[i], TRUE, TRUE)],
                           [i \in 1..n |-> i], [i \in 1..n |-> i])
       IN fn' = [fn EXCEPT !.l = l,
                           !.pc = IF l.err # ErrNone \/ Len(l.meta) = 0
                                  THEN "loaded" ELSE "sort"]
    /\ UNCHANGED dbVars

FilesSort ==
    /\ fn.pc = "sort"
    /\ \E r \in ingestSortAndVerify(fn.l.meta, fn.l.paths) :
          fn' = [fn EXCEPT !.s = r,
                           !.pc = IF r.err # ErrNone THEN "sorted" ELSE "stamp"]
    /\ UNCHANGED dbVars

FilesStamp ==
    /\ fn.pc = "stamp"
    /\ \E seqNum \in 1..MaxSeqNum :
          /\ seqNum + Len(fn.s.meta) - 1 <= MaxSeqNum
          /\ fn' = [fn EXCEPT !.seqNum = seqNum,
                              !.u = ingestUpdateSeqNum(seqNum, fn.s.meta),
                              !.pc = "stamped"]
    /\ UNCHANGED dbVars

NextFiles == FilesLoad \/ FilesSort \/ FilesStamp

SpecFiles == InitFiles /\ [][NextFiles]_vars

\* C6 (non-overlap after sort): in a list ingestSortAndVerify accepts every
\* file ends before every later file starts, and a list whose sorted order
\* has an adjacent pair that does not is refused with the Overlap error
NonOverlapAfterSort ==
    fn.pc \in {"sorted", "stamp"} =>
        LET m == fn.s.meta IN
        /\ fn.s.err = ErrNone =>
              \A i, j \in 1..Len(m) :
                  i < j => sstableKeyCompare(m[i].Largest, m[j].Smallest) < 0
        /\ (\E i \in 2..Len(m) :
               sstableKeyCompare(m[i - 1].Largest, m[i].Smallest) >= 0)
              => fn.s.err = ErrOverlap

\* a list of three files is accepted, and it was not given in sorted order
NonOverlapAfterSortWitness ==
    /\ fn.pc = "stamp"
    /\ Len(fn.s.meta) = 3
    /\ fn.s.paths # fn.l.paths

\* C7 (sequence contiguity): stamping n files from the base S succeeds and
\* gives the i-th file the sequence number S+i-1 as its smallest and its
\* largest, so that S..S+n-1 each appear once
SeqNumContiguity ==
    fn.pc = "stamped" =>
        LET m == fn.u.meta
            n == Len(fn.s.meta) IN
        /\ fn.u.err = ErrNone
        /\ Len(m) = n
        /\ \A i \in 1..n :
              /\ m[i].SmallestSeqNum = fn.seqNum + i - 1
              /\ m[i].LargestSeqNum = fn.seqNum + i - 1
              /\ m[i].Smallest.SeqNum = fn.seqNum + i - 1
        /\ {m[i].SmallestSeqNum : i \in 1..n} = fn.seqNum..(fn.seqNum + n - 1)

\* two files or more are stamped from a base above 1
SeqNumContiguityWitness ==
    /\ fn.pc = "stamped"
    /\ Len(fn.u.meta) >= 2
    /\ fn.seqNum > 1

\* the bounds of a descriptor
BoundNames ==
    {"Smallest", "Largest", "SmallestPointKey", "LargestPointKey",
     "SmallestRangeKey", "LargestRangeKey"}

\* C8 (sentinel preservation): stamping leaves a Largest and a
\* LargestPointKey that is an exclusive sentinel as it is, changes no user
\* key and no kind of any bound, and gives the other Largest and every
\* Smallest the new sequence number
SentinelPreservation ==
    fn.pc = "stamped" =>
        \A i \in 1..Len(fn.s.meta) :
            LET b == fn.s.meta[i]
                a == fn.u.meta[i] IN
            /\ IsExclusiveSentinel(b.Largest) => a.Largest = b.Largest
            /\ IsExclusiveSentinel(b.LargestPointKey) =>
                  a.LargestPointKey = b.LargestPointKey
            /\ \A x \in BoundNames :
                  /\ a[x].UserKey = b[x].UserKey
                  /\ a[x].Kind = b[x].Kind
            /\ ~IsExclusiveSentinel(b.Largest) =>
                  a.Largest.SeqNum = fn.seqNum + i - 1
            /\ a.Smallest.SeqNum = fn.seqNum + i - 1

\* a file whose Largest is an exclusive sentinel has been stamped
SentinelPreservationWitness ==
    /\ fn.pc = "stamped"
    /\ \E i \in 1..Len(fn.s.meta) :
          /\ IsExclusiveSentinel(fn.s.meta[i].Largest)
          /\ fn.u.meta[i].SmallestSeqNum = fn.seqNum + i - 1
          /\ fn.u.meta[i].Largest = fn.s.meta[i].Largest

\* a key an external file may hold
ValidKey(k) == k.SeqNum = 0 /\ k.Kind # KindInvalid

\* the keys ingestLoad1 reads: the first and the last point key, and the
\* start keys of the first and the last span of each kind
BoundaryKeys(tbl) ==
    (IF tbl.pts = {} THEN {} ELSE {FirstKey(tbl.pts), LastKey(tbl.pts)})
    \cup (IF tbl.dels = {} THEN {}
          ELSE {SpanSmallestKey(FirstSpan(tbl.dels)), SpanSmallestKey(LastSpan(tbl.dels))})
    \cup (IF tbl.rks = {} THEN {}
          ELSE {SpanSmallestKey(FirstSpan(tbl.rks)), SpanSmallestKey(LastSpan(tbl.rks))})

\* C14 (key validation) as the specification words it: a list with a file
\* that holds, at any position, a key with a sequence number or of kind
\* Invalid is rejected with a Corruption error, and every file of a list
\* the loader accepts has valid keys only
KeyValidation ==
    fn.pc \in {"loaded", "sort"} =>
        /\ (\E i \in 1..Len(fn.tables) : \E k \in AllKeys(fn.tables[i]) : ~ValidKey(k))
              => fn.l.err = ErrCorruption
        /\ fn.l.err = ErrNone =>
              \A i \in 1..Len(fn.tables) : \A k \in AllKeys(fn.tables[i]) : ValidKey(k)

\* C14 (key validation): a list with a file whose first or last point key,
\* or whose first or last span's start key, has a sequence number or the
\* kind Invalid is rejected with a Corruption error and no descriptor is
\* returned; every file of a list the loader accepts has those keys valid
BoundaryKeyValidation ==
    fn.pc \in {"loaded", "sort"} =>
        /\ (\E i \in 1..Len(fn.tables) : \E k \in BoundaryKeys(fn.tables[i]) : ~ValidKey(k))
              => fn.l.err = ErrCorruption /\ fn.l.meta = <<>>
        /\ fn.l.err = ErrNone =>
              \A i \in 1..Len(fn.tables) : \A k \in BoundaryKeys(fn.tables[i]) : ValidKey(k)

\* a list whose first file is valid and whose second file has a last key
\* with a sequence number is rejected
BoundaryKeyValidationWitness ==
    /\ fn.pc = "loaded"
    /\ fn.l.err = ErrCorruption
    /\ Len(fn.tables) >= 2
    /\ \A k \in AllKeys(fn.tables[1]) : ValidKey(k)
    /\ fn.tables[1] # EmptyTable
    /\ \E k \in BoundaryKeys(fn.tables[2]) : k.SeqNum # 0


\* descriptor k of the list is the one loaded from path k of the list, with
\* the file number allocated to that path's position in the input (here
\* the path of position i is i and its file number is i)
InLockstep(r) ==
    /\ Len(r.meta) = Len(r.paths)
    /\ \A k \in 1..Len(r.meta) :
          /\ r.paths[k] \in 1..Len(fn.tables)
          /\ r.meta[k].FileNum = r.paths[k]
          /\ r.meta[k] = ingestLoad1(ExternalFile(fn.tables[r.paths[k]], TRUE, TRUE),
                                     r.paths[k]).meta

\* C38 (path and descriptor lockstep): after loading, the paths are those
\* of the input files that hold keys, in input order, and after sorting
\* they are the same paths in another order; both times the two lists have
\* equal length and descriptor k was loaded from path k and carries the
\* file number allocated to that path's input position, which is the pair
\* the linker installs
PathDescriptorLockstep ==
    /\ fn.pc # "load" /\ fn.l.err = ErrNone =>
          /\ InLockstep(fn.l)
          /\ \A k \in 1..(Len(fn.l.paths) - 1) : fn.l.paths[k] < fn.l.paths[k + 1]
          /\ {fn.l.paths[k] : k \in 1..Len(fn.l.paths)}
                = {i \in 1..Len(fn.tables) : fn.tables[i] # EmptyTable}
    /\ fn.pc \in {"sorted", "stamp", "stamped"} =>
          /\ InLockstep(fn.s)
          /\ Len(fn.s.paths) = Len(fn.l.paths)
          /\ {fn.s.paths[k] : k \in 1..Len(fn.s.paths)}
                = {fn.l.paths[k] : k \in 1..Len(fn.l.paths)}

\* of three input files the first holds no key and the other two are given
\* in descending key order: the sorted lists hold the third file and then
\* the second, each with its own path and file number
PathDescriptorLockstepWitness ==
    /\ fn.pc = "stamp"
    /\ Len(fn.tables) = 3
    /\ fn.tables[1] = EmptyTable
    /\ fn.s.paths = <<3, 2>>
    /\ fn.s.meta[1].FileNum = 3 /\ fn.s.meta[2].FileNum = 2

(***************************************************************************)
(* The target-level picker applied alone: a version is built file by file, *)
(* a compaction may be picked, and the picker is called for one file.      *)
(***************************************************************************)
\* the most files of a version
MaxVersionFiles == 3

\* the tables of the files of the version, at sequence number 1
VersionTables ==
    {WithGlobalSeqNum(t, 1) :
        t \in {PointTable({0}), PointTable({1}), PointTable({2}),
               PointTable({0, 2}),
               Table({}, {Span(0, 1, 0, KindRangeDelete)}, {}),
               Table({}, {}, {Span(1, 2, 0, KindRangeKeySet)})}}

\* the files offered to the picker, loaded and stamped
PickerMetas ==
    {UpdateSeqNum1(ingestLoad1(ExternalFile(t, TRUE, TRUE), 0).meta, MaxSeqNum) :
        t \in {PointTable({0}), PointTable({1}), PointTable({0, 1}),
               PointTable({1, 2}),
               Table({}, {Span(1, 2, 0, KindRangeDelete)}, {}),
               Table({}, {Span(0, 1, 0, KindRangeDelete)}, {}),
               Table({}, {}, {Span(0, 1, 0, KindRangeKeySet)})}}

NoPick == [pc |-> "build", meta |-> EmptyMeta(0), level |-> 0, err |-> ErrNone]

InitPicker ==
    /\ InitDB
    /\ fn = NoPick

\* a file is added to a level; the files of a level > 0 stay disjoint
PickerAddFile(l, tbl) ==
    /\ fn.pc = "build"
    /\ inProgress = {}
    /\ Cardinality(LevelFiles) < MaxVersionFiles
    /\ LET f == File(TableMeta(tbl, nextFileNum), tbl) IN
       /\ l > 0 => \A g \in levels[l] : Disjoint(f.meta, g.meta)
       /\ levels' = [levels EXCEPT ![l] = @ \cup {f}]
    /\ nextFileNum' = nextFileNum + 1
    /\ baseLevel' \in BaseLevels(levels')
    /\ UNCHANGED <<queue, inProgress, logLock, commitMu, logSeqNum, visibleSeqNum,
                   nextJobID, objs, extfs, obsoleteTables, ing, faults, fn>>

PickerCompactionStart(l, f) ==
    /\ fn.pc = "build"
    /\ CompactionStart(l, f)

\* ingestTargetLevel for one file; the iterators of the files bad fail
PickerPick(meta, bad) ==
    /\ fn.pc = "build"
    /\ LET r == ingestTargetLevel(bad, levels, baseLevel, inProgress, meta) IN
       /\ bad # {} => r.err # ErrNone
       /\ fn' = [pc |-> "picked", meta |-> meta, level |-> r.level, err |-> r.err]
    /\ UNCHANGED dbVars

NextPicker ==
    \/ \E l \in Levels : \E tbl \in VersionTables : PickerAddFile(l, tbl)
    \/ \E l \in Levels : \E f \in levels[l] : PickerCompactionStart(l, f)
    \/ \E meta \in PickerMetas :
         \E bad \in {{}} \cup {{f.meta.FileNum} : f \in LevelFiles} :
            PickerPick(meta, bad)

SpecPicker == InitPicker /\ [][NextPicker]_vars

\* user key u lies within the bounds of meta, whose end is exclusive when
\* its Largest is an exclusive sentinel
InBounds(u, meta) ==
    /\ meta.Smallest.UserKey <= u
    /\ \/ u < meta.Largest.UserKey
       \/ u = meta.Largest.UserKey /\ ~IsExclusiveSentinel(meta.Largest)

\* file f holds a point key or a part of a span within the bounds of meta
HasKeyInBounds(f, meta) ==
    \/ \E k \in f.tbl.pts : InBounds(k.UserKey, meta)
    \/ \E sp \in f.tbl.dels \cup f.tbl.rks : \E u \in UserKeys :
          sp.Start <= u /\ u < sp.End /\ InBounds(u, meta)
    \/ \E sp \in f.tbl.dels \cup f.tbl.rks :
          sp.Start < meta.Smallest.UserKey /\ meta.Smallest.UserKey < sp.End

\* C3 (placement soundness): when the picker returns level T for M, no file
\* of a level above T holds a key within M's bounds, no file of level T > 0
\* has bounds that overlap M's, and no compaction in progress into level T
\* has a range that meets M's bounds; the end of M's bounds is exclusive
\* when M's Largest is an exclusive sentinel
PlacementSoundness ==
    fn.pc = "picked" /\ fn.err = ErrNone =>
        /\ \A l \in Levels : \A f \in levels[l] :
              l < fn.level => ~HasKeyInBounds(f, fn.meta)
        /\ fn.level > 0 =>
              \A f \in levels[fn.level] :
                  /\ Disjoint(f.meta, fn.meta)
                  /\ ~HasKeyInBounds(f, fn.meta)
        /\ \A c \in inProgress :
              c.outputLevel = fn.level /\ fn.level > 0 =>
                  \/ fn.meta.Largest.UserKey < c.smallest.UserKey
                  \/ c.largest.UserKey < fn.meta.Smallest.UserKey

\* the picker has returned a level > 0 below a file whose bounds overlap M's
PlacementSoundnessWitness ==
    /\ fn.pc = "picked"
    /\ fn.err = ErrNone
    /\ fn.level = numLevels - 1
    /\ \E l \in 0..(fn.level - 1) : \E f \in levels[l] : ~Disjoint(f.meta, fn.meta)
    /\ levels[fn.level] # {}

\* C3 as the specification words it: no file of a level <= T holds a key in
\* [M.smallest.user_key, M.largest.user_key], no file of level T > 0 has
\* bounds meeting that interval, no compaction into T has a range meeting it
PlacementSoundnessClosed ==
    fn.pc = "picked" /\ fn.err = ErrNone =>
        /\ \A l \in Levels : \A f \in levels[l] :
              l <= fn.level =>
                 /\ \A k \in f.tbl.pts :
                       ~(fn.meta.Smallest.UserKey <= k.UserKey
                           /\ k.UserKey <= fn.meta.Largest.UserKey)
                 /\ \A sp \in f.tbl.dels \cup f.tbl.rks :
                       ~(sp.Start <= fn.meta.Largest.UserKey
                           /\ fn.meta.Smallest.UserKey < sp.End)
        /\ fn.level > 0 =>
              \A f \in levels[fn.level] :
                  \/ f.meta.Largest.UserKey < fn.meta.Smallest.UserKey
                  \/ fn.meta.Largest.UserKey < f.meta.Smallest.UserKey
        /\ \A c \in inProgress :
              c.outputLevel = fn.level =>
                  \/ fn.meta.Largest.UserKey < c.smallest.UserKey
                  \/ c.largest.UserKey < fn.meta.Smallest.UserKey

\* level t is free for M: no file of a level <= t holds a key within M's
\* bounds, no file of t has bounds that overlap M's unless t is 0, and no
\* compaction in progress into t has a range that meets M's bounds
LevelFree(t, meta) ==
    /\ \A l \in 0..t : \A f \in levels[l] : ~HasKeyInBounds(f, meta)
    /\ t > 0 => \A f \in levels[t] : Disjoint(f.meta, meta)
    /\ \A c \in inProgress :
          c.outputLevel = t =>
             \/ meta.Largest.UserKey < c.smallest.UserKey
             \/ c.largest.UserKey < meta.Smallest.UserKey

\* C16 (deepest placement) as the specification words it: the level picked
\* is free for M and no deeper level of 0..Lmax is; in a database without
\* files the level picked is Lmax
DeepestPlacementAllLevels ==
    fn.pc = "picked" /\ fn.err = ErrNone =>
        /\ LevelFree(fn.level, fn.meta)
        /\ \A t \in Levels : t > fn.level => ~LevelFree(t, fn.meta)
        /\ LevelFiles = {} => fn.level = numLevels - 1

\* C16 (deepest placement): the level picked is 0 or a level from the base
\* level on that is free for M; no deeper level from the base level on is
\* free for M; in a database without files the level picked is Lmax
DeepestPlacement ==
    fn.pc = "picked" /\ fn.err = ErrNone =>
        /\ fn.level > 0 => fn.level >= baseLevel /\ LevelFree(fn.level, fn.meta)
        /\ \A t \in Levels :
              t > fn.level /\ t >= baseLevel => ~LevelFree(t, fn.meta)
        /\ LevelFiles = {} => fn.level = numLevels - 1

\* the picker has returned a level > 0 above a deeper level that is not
\* free for M
DeepestPlacementWitness ==
    /\ fn.pc = "picked"
    /\ fn.err = ErrNone
    /\ fn.level > 0
    /\ fn.level < numLevels - 1
    /\ levels[numLevels - 1] # {}

\* a file of level l holds a key within the bounds of meta
LevelDataOverlap(l, meta) == \E f \in levels[l] : HasKeyInBounds(f, meta)

\* the bounds of a file of level l, or the range of a compaction in
\* progress into l, meet the bounds of meta
LevelSkipped(l, meta) ==
    \/ \E f \in levels[l] : ~Disjoint(f.meta, meta)
    \/ \E c \in inProgress :
          /\ c.outputLevel = l
          /\ meta.Smallest.UserKey <= c.largest.UserKey
          /\ c.smallest.UserKey <= meta.Largest.UserKey

\* C30 (picker search rule): a file of L0 with a key within M's bounds
\* makes the picker return 0; otherwise the search goes from the base level
\* down and ends at the first level with such a file, and the level
\* returned is the deepest level before that one where neither a file's
\* bounds nor the range of a compaction into the level meets M's bounds,
\* or 0 when there is none: a level passed over for its bounds or for a
\* compaction does not end the search
PickerSearchRule ==
    fn.pc = "picked" /\ fn.err = ErrNone =>
        LET stops == {l \in baseLevel..(numLevels - 1) : LevelDataOverlap(l, fn.meta)}
            end == IF stops = {} THEN numLevels ELSE SetMin(stops)
            kept == {l \in baseLevel..(end - 1) : ~LevelSkipped(l, fn.meta)}
        IN /\ LevelDataOverlap(0, fn.meta) => fn.level = 0
           /\ ~LevelDataOverlap(0, fn.meta) =>
                 fn.level = IF kept = {} THEN 0 ELSE SetMax(kept)
           /\ \A l \in stops : fn.level < l

\* the picker returned a level below one it passed over for a file whose
\* bounds, but none of whose keys, meet M's
PickerSearchRuleWitness ==
    /\ fn.pc = "picked"
    /\ fn.err = ErrNone
    /\ \E l \in baseLevel..(fn.level - 1) :
          /\ \E f \in levels[l] : ~Disjoint(f.meta, fn.meta)
          /\ ~LevelDataOverlap(l, fn.meta)

\* the level the picker returns for meta in version v with the compactions
\* in progress, every iterator opening
TargetLevel(v, compactions, meta) ==
    ingestTargetLevel({}, v, baseLevel, compactions, meta).level

\* C36 (picker monotonicity): for a fixed file M and base level, a version
\* with one more file in any level, or with one more compaction in
\* progress, never gets a deeper target level than the version without it:
\* the level picked for M is at most the level picked without any one file
\* of the version, and without any one of the compactions
PickerMonotonicity ==
    fn.pc = "picked" /\ fn.err = ErrNone =>
        /\ fn.level = TargetLevel(levels, inProgress, fn.meta)
        /\ \A l \in Levels : \A f \in levels[l] :
              fn.level <= TargetLevel([levels EXCEPT ![l] = @ \ {f}], inProgress,
                                      fn.meta)
        /\ \A c \in inProgress :
              fn.level <= TargetLevel(levels, inProgress \ {c}, fn.meta)

\* the picker returned a level for M in a version where it would go deeper
\* without one of the files, and deeper without the compaction in progress
PickerMonotonicityWitness ==
    /\ fn.pc = "picked"
    /\ fn.err = ErrNone
    /\ \E l \in Levels : \E f \in levels[l] :
          fn.level < TargetLevel([levels EXCEPT ![l] = @ \ {f}], inProgress, fn.meta)
    /\ \E c \in inProgress :
          fn.level < TargetLevel(levels, inProgress \ {c}, fn.meta)

(***************************************************************************)
(* The walk of prepare applied alone to a queue and a list of files.       *)
(***************************************************************************)
\* the longest queue walked
MaxQueue == 3

\* the memtables of the queue, and the contents of the files of the call
WalkTables ==
    {EmptyTable} \cup
    {WithGlobalSeqNum(t, 1) :
        t \in {PointTable({0}), PointTable({2}),
               Table({}, {Span(1, 2, 0, KindRangeDelete)}, {})}}
WalkFiles ==
    {<<t>> : t \in {PointTable({0}), PointTable({1}), PointTable({0, 1}),
                     PointTable({1, 2}),
                     Table({}, {Span(1, 2, 0, KindRangeDelete)}, {}),
                     Table({}, {Span(0, 1, 0, KindRangeDelete)}, {}),
                     Table({}, {}, {Span(0, 1, 0, KindRangeKeySet)})}} \cup
    {<<PointTable({0}), PointTable({2})>>}

\* a prepare that forces the flush of the mutable memtable when no entry
\* of the queue overlaps
prepare_FlushAlways(q, meta, tbls, closeErr, formatOld, disabled, fail, p, seqNum) ==
    [queue |-> forceFlushQueue(q, Len(q), p, fail, seqNum + Len(meta)),
     mem |-> Len(q),
     err |-> IF fail THEN ErrIO ELSE ErrNone,
     asFlushable |-> FALSE, wal |-> <<>>]

\* the prepare closure of DB.ingest for the call of p on queue q: [queue,
\* mem, err, asFlushable, wal], the queue it leaves, the entry apply will
\* wait for (0: none), its error, and the batch handleIngestAsFlushable
\* wrote to the WAL; tbls are the contents of the files, closeErr the
\* entries whose iterators fail to close, fail the failure of
\* makeRoomForWrite
prepare(q, meta, tbls, closeErr, formatOld, disabled, fail, p, seqNum) ==
    LET i == prepareWalk(q, meta, closeErr, Len(q), {}).mem
        r == ingestUpdateSeqNum(seqNum, meta)
        files == [k \in 1..Len(meta) |->
                     File(r.meta[k],
                          WithGlobalSeqNum(tbls[k], r.meta[k].SmallestSeqNum))]
    IN IF i = 0
       THEN [queue |-> q, mem |-> 0, err |-> ErrNone, asFlushable |-> FALSE,
             wal |-> <<>>]
       ELSE IF forceFlush(q, formatOld, disabled)
       THEN [queue |-> forceFlushQueue(q, i, p, fail /\ i = Len(q),
                                       seqNum + Len(meta)),
             mem |-> i,
             err |-> IF fail /\ i = Len(q) THEN ErrIO ELSE ErrNone,
             asFlushable |-> FALSE, wal |-> <<>>]
       ELSE [queue |-> IF r.err # ErrNone THEN q
                       ELSE queueIngested(q, IngestedEntry(files, seqNum),
                                          nextSeqNum(seqNum, meta)),
             mem |-> 0, err |-> r.err, asFlushable |-> TRUE,
             wal |-> [k \in 1..Len(meta) |-> meta[k].FileNum]]

InitWalk ==
    /\ InitDB
    /\ fn \in {[pc |-> "walk", q |-> q, tbls |-> tbls,
                meta |-> [i \in 1..Len(tbls) |->
                             UpdateSeqNum1(
                                 ingestLoad1(ExternalFile(tbls[i], TRUE, TRUE), 0).meta,
                                 MaxSeqNum - Len(tbls) + i)],
                closeErr |-> closeErr,
                formatOld |-> opts[1], disabled |-> opts[2], fail |-> opts[3],
                w |-> [mem |-> 0, probed |-> {}],
                out |-> [queue |-> q, mem |-> 0, err |-> ErrNone,
                         asFlushable |-> FALSE, wal |-> <<>>]]
                 : q \in UNION {[1..n -> {MemEntry(t, 1) : t \in WalkTables}]
                                  : n \in 1..MaxQueue},
                   tbls \in WalkFiles,
                   closeErr \in {{}} \cup {{i} : i \in 1..MaxQueue},
                   opts \in [1..3 -> BOOLEAN]}
    /\ fn.closeErr \subseteq 1..Len(fn.q)

\* the walk of prepare, and the whole of prepare, for the call of
\* goroutine 1 with base sequence number 2
WalkApply ==
    /\ fn.pc = "walk"
    /\ fn' = [fn EXCEPT !.pc = "walked",
                        !.w = prepareWalk(fn.q, fn.meta, fn.closeErr, Len(fn.q), {}),
                        !.out = prepare(fn.q, fn.meta, fn.tbls, fn.closeErr,
                                        fn.formatOld, fn.disabled, fn.fail, 1, 2)]
    /\ UNCHANGED dbVars

NextWalk == WalkApply

SpecWalk == InitWalk /\ [][NextWalk]_vars

\* entry i of the walked queue overlaps a file of the call
WalkOverlaps(i) ==
    \E k \in 1..Len(fn.meta) :
        ingestMemtableOverlaps(FlushableTable(fn.q[i]), <<fn.meta[k]>>)

\* C26 (newest overlapping entry) as the specification words it: the walk
\* stops at the newest entry that overlaps a file of the call, or at none
\* when no entry does, and it has probed that entry and the newer ones only
NewestOverlappingEntry ==
    fn.pc = "walked" =>
        LET over == {i \in 1..Len(fn.q) : WalkOverlaps(i)} IN
        /\ fn.w.mem = IF over = {} THEN 0 ELSE SetMax(over)
        /\ fn.w.probed = {i \in 1..Len(fn.q) : i >= fn.w.mem}

\* C26 (newest overlapping entry): the walk stops at the newest entry that
\* overlaps a file of the call or whose iterators fail to close, or at none
\* when there is no such entry; the entries newer than it overlap no file;
\* it has probed that entry and the newer ones only
NewestOverlappingOrFailedEntry ==
    fn.pc = "walked" =>
        LET over == {i \in 1..Len(fn.q) : WalkOverlaps(i) \/ i \in fn.closeErr} IN
        /\ fn.w.mem = IF over = {} THEN 0 ELSE SetMax(over)
        /\ \A i \in 1..Len(fn.q) : i > fn.w.mem => ~WalkOverlaps(i)
        /\ fn.w.probed = {i \in 1..Len(fn.q) : i >= fn.w.mem}

\* of three entries the oldest and the middle one overlap the second file
\* of the call: the walk stopped at the middle one, with the oldest not
\* probed
NewestOverlappingOrFailedEntryWitness ==
    /\ fn.pc = "walked"
    /\ Len(fn.q) = 3 /\ Len(fn.meta) = 2
    /\ fn.closeErr = {}
    /\ WalkOverlaps(1) /\ WalkOverlaps(2) /\ ~WalkOverlaps(3)
    /\ ~ingestMemtableOverlaps(FlushableTable(fn.q[2]), <<fn.meta[1]>>)
    /\ fn.w.mem = 2
    /\ fn.w.probed = {2, 3}

\* prepare has left the queue with its entries and their flushForced flags
\* as they were, pinned no entry for apply to wait for, written nothing to
\* the WAL and set no error
PrepareDidNothing ==
    /\ fn.out.queue = fn.q
    /\ fn.out.mem = 0
    /\ ~fn.out.asFlushable
    /\ fn.out.wal = <<>>
    /\ fn.out.err = ErrNone

ProbeSpans(kind) ==
    LET sp(a, b, e) == Span(a, b, 1, IF e THEN "none" ELSE kind) IN
    {{}} \cup
    {{sp(a, b, e)} : a \in UserKeys, b \in UserKeys, e \in BOOLEAN} \cup
    {{sp(0, 1, e1), sp(1, 2, e2)} : e1 \in BOOLEAN, e2 \in BOOLEAN}

InitProbe ==
    /\ InitDB
    /\ fn \in {[pc |-> "probe", tbl |-> Table(WithGlobalSeqNum(PointTable(ks), 1).pts,
                                              dels, rks),
                meta |-> meta, overlap |-> FALSE]
                 : ks \in SUBSET UserKeys,
                   dels \in ProbeSpans(KindRangeDelete),
                   rks \in ProbeSpans(KindRangeKeySet),
                   meta \in PickerMetas}
    /\ \A s \in fn.tbl.dels \cup fn.tbl.rks : s.Start < s.End

\* overlapWithIterator over the iterators of the table
ProbeApply ==
    /\ fn.pc = "probe"
    /\ fn' = [fn EXCEPT !.pc = "probed",
                        !.overlap = overlapWithIterator(
                                        PointIter(fn.tbl),
                                        [u \in UserKeys |-> RangeDelIter(fn.tbl)],
                                        RangeKeyIter(fn.tbl), fn.meta)]
    /\ UNCHANGED dbVars

NextProbe == ProbeApply

SpecProbe == InitProbe /\ [][NextProbe]_vars

\* the interval-intersection test: a point key k of the table with
\* k.UserKey >= M.Smallest.UserKey and k <= M.Largest, or a span with keys
\* whose start key is <= M.Largest and whose end is > M.Smallest.UserKey
ProbeReference(tbl, meta) ==
    \/ \E k \in tbl.pts :
          /\ k.UserKey >= meta.Smallest.UserKey
          /\ sstableKeyCompare(k, meta.Largest) <= 0
    \/ \E s \in tbl.dels \cup tbl.rks :
          /\ ~Empty(s)
          /\ sstableKeyCompare(SpanSmallestKey(s), meta.Largest) <= 0
          /\ s.End > meta.Smallest.UserKey

\* C31 (overlap probe correctness): over a point iterator of real keys and
\* fragment iterators of sorted, disjoint spans, overlapWithIterator returns
\* true exactly when the interval-intersection test finds a point key or a
\* span with keys that meets the bounds of M
OverlapProbeCorrectness ==
    fn.pc = "probed" => (fn.overlap <=> ProbeReference(fn.tbl, fn.meta))

\* the probe found the overlap in a range deletion that starts before
\* M.Smallest.UserKey, after a point key past M.Largest and a range key
\* that ends at M.Smallest.UserKey
OverlapProbeCorrectnessWitness ==
    /\ fn.pc = "probed"
    /\ fn.overlap
    /\ fn.meta.Smallest.UserKey = 1
    /\ IsExclusiveSentinel(fn.meta.Largest)
    /\ \E k \in fn.tbl.pts : k.UserKey = 2
    /\ \A k \in fn.tbl.pts : k.UserKey # 1
    /\ \E s \in fn.tbl.rks : ~Empty(s) /\ s.End = 1
    /\ \E s \in fn.tbl.dels : ~Empty(s) /\ s.Start = 0 /\ s.End = 2

(***************************************************************************)
(* The block-checksum validator applied alone: ingestApply hands it the    *)
(* new files of version edits, and each validateSSTables goroutine runs at *)
(* most one round.  fn holds d.mu.tableValidation and the goroutines.      *)
(***************************************************************************)
\* the most calls of maybeValidateSSTablesLocked in one behaviour
MaxValidateCalls == 3

\* a validation that does not look at the validating flag
shouldValidateSSTablesLocked_NoFlag(v) ==
    ~v.closed /\ v.enabled /\ Len(v.pending) > 0

shouldValidateSSTablesLocked(v) ==
    ~v.validating /\ ~v.closed /\ v.enabled /\ Len(v.pending) > 0

\* no goroutine in slot g
NoRound == [pc |-> "none", taken |-> <<>>, jobID |-> 0]
\* go d.validateSSTables(): a goroutine that has not yet taken d.mu
NewRound == [pc |-> "start", taken |-> <<>>, jobID |-> 0]

InitValidate ==
    /\ InitDB
    /\ fn \in {[pending |-> <<>>, validating |-> FALSE, closed |-> FALSE,
                enabled |-> enabled, calls |-> 0, appended |-> 0, nextJobID |-> 1,
                g |-> [i \in 1..MaxValidateCalls |-> NoRound],
                rounds |-> <<>>, validated |-> {}]
                 : enabled \in BOOLEAN}

\* maybeValidateSSTablesLocked(newFiles) at the end of ingestApply, under
\* d.mu: n new files, numbered in the order they are appended
ValidateIngest(n) ==
    /\ fn.calls < MaxValidateCalls
    /\ LET newFiles == [i \in 1..n |-> fn.appended + i]
           v0 == [fn EXCEPT !.calls = @ + 1]
           v1 == [v0 EXCEPT !.pending = @ \o newFiles, !.appended = @ + n]
       IN fn' = IF ~fn.enabled THEN v0
                ELSE IF shouldValidateSSTablesLocked(v1)
                     THEN [v1 EXCEPT !.g[v1.calls] = NewRound]
                     ELSE v1
    /\ UNCHANGED dbVars

\* validateSSTables up to the release of d.mu: the goroutine returns, or
\* it takes the whole pending queue and sets validating
ValidateBegin(g) ==
    /\ fn.g[g].pc = "start"
    /\ fn' = IF ~shouldValidateSSTablesLocked(fn)
             THEN [fn EXCEPT !.g[g] = NoRound]
             ELSE [fn EXCEPT !.g[g] = [pc |-> "io", taken |-> fn.pending,
                                       jobID |-> fn.nextJobID],
                             !.pending = <<>>,
                             !.validating = TRUE,
                             !.nextJobID = @ + 1,
                             !.rounds = Append(@, fn.pending)]
    /\ UNCHANGED dbVars

\* the loop over the files taken, without d.mu: a file no longer in the
\* version is skipped, the others are read and reported
ValidateRun(g) ==
    /\ fn.g[g].pc = "io"
    /\ \E skipped \in SUBSET {fn.g[g].taken[i] : i \in 1..Len(fn.g[g].taken)} :
          /\ Cardinality(skipped) <= 1
          /\ fn' = [fn EXCEPT !.g[g].pc = "finish",
                              !.validated = @ \cup
                                  ({fn.g[g].taken[i] : i \in 1..Len(fn.g[g].taken)}
                                      \ skipped)]
    /\ UNCHANGED dbVars

\* an end of the round that starts no other round
ValidateEnd_NoReschedule(g) ==
    /\ fn.g[g].pc = "finish"
    /\ fn' = [fn EXCEPT !.validating = FALSE, !.g[g] = NoRound]
    /\ UNCHANGED dbVars

\* the end of validateSSTables, under d.mu again: validating is reset and
\* another goroutine is started when there is work for it
ValidateEnd(g) ==
    /\ fn.g[g].pc = "finish"
    /\ LET v1 == [fn EXCEPT !.validating = FALSE] IN
       fn' = IF shouldValidateSSTablesLocked(v1)
             THEN [v1 EXCEPT !.g[g] = NewRound]
             ELSE [v1 EXCEPT !.g[g] = NoRound]
    /\ UNCHANGED dbVars

\* DB.Close: d.closed is set
ValidateClose ==
    /\ ~fn.closed
    /\ fn' = [fn EXCEPT !.closed = TRUE]
    /\ UNCHANGED dbVars

NextValidate ==
    \/ \E n \in 1..2 : ValidateIngest(n)
    \/ \E g \in 1..MaxValidateCalls : ValidateBegin(g)
    \/ \E g \in 1..MaxValidateCalls : ValidateRun(g)
    \/ \E g \in 1..MaxValidateCalls : ValidateEnd(g)
    \/ ValidateClose

SpecValidate == InitValidate /\ [][NextValidate]_vars

\* the goroutines between setting validating and resetting it
RunningRounds == {g \in 1..MaxValidateCalls : fn.g[g].pc \in {"io", "finish"}}

\* the rounds that took entry e
RoundsOf(e) ==
    {k \in 1..Len(fn.rounds) : \E i \in 1..Len(fn.rounds[k]) : fn.rounds[k][i] = e}

\* C33 (singleton validator): at most one validateSSTables round is
\* between setting validating and resetting it, and validating is set
\* exactly then; every entry appended to the pending queue is in the queue
\* or was taken by exactly one round, never both, and a round that starts
\* leaves the queue empty
SingletonValidator ==
    /\ Cardinality(RunningRounds) <= 1
    /\ fn.validating <=> RunningRounds # {}
    /\ \A e \in 1..fn.appended :
          LET queued == Cardinality({i \in 1..Len(fn.pending) : fn.pending[i] = e})
          IN queued + Cardinality(RoundsOf(e)) = 1
    /\ \A g \in RunningRounds :
          \A i \in 1..Len(fn.pending) :
              \A j \in 1..Len(fn.g[g].taken) : fn.pending[i] > fn.g[g].taken[j]

\* three calls have appended files; the first two each started a goroutine,
\* one of which took the files of both calls and is running its round while
\* the other has yet to start and the files of the third call wait in the
\* queue
SingletonValidatorWitness ==
    /\ fn.calls = 3
    /\ Cardinality({g \in 1..MaxValidateCalls : fn.g[g].pc = "start"}) = 1
    /\ Cardinality(RunningRounds) = 1
    /\ Len(fn.rounds) = 1 /\ Len(fn.rounds[1]) >= 2
    /\ Len(fn.pending) >= 1

\* the Go scheduler runs every goroutine that is started, and a goroutine
\* waiting for d.mu gets it
ValidateFairness ==
    \A g \in 1..MaxValidateCalls :
        /\ WF_vars(ValidateBegin(g))
        /\ WF_vars(ValidateRun(g))
        /\ WF_vars(ValidateEnd(g))

SpecValidateLive == InitValidate /\ [][NextValidate]_vars /\ ValidateFairness

\* C34 (no lost validation work): with validate-on-ingest enabled, every
\* entry appended to the pending queue is eventually taken by a validation
\* round, unless the database is closed first; this holds for the entries
\* appended while a round is running too
NoLostValidation ==
    \A e \in 1..(2 * MaxValidateCalls) :
        (\E i \in 1..Len(fn.pending) : fn.pending[i] = e)
            ~> (RoundsOf(e) # {} \/ fn.closed)

\* in a database that is still open, the second call appended its files
\* while the first round was running and started no goroutine; the
\* goroutine the first round started at its end is running the second
\* round with those files
NoLostValidationWitness ==
    /\ ~fn.closed
    /\ fn.calls = 2
    /\ Len(fn.rounds) = 2
    /\ RunningRounds = {1}
    /\ fn.g[1].taken = fn.rounds[2]
    /\ fn.validated # {}

(***************************************************************************)
(* The linker applied alone to a list of files and a provider.             *)
(***************************************************************************)
\* the longest list of files linked
MaxLinkFiles == 3
\* the objects the provider may hold before the call
OldObjects == {MaxLinkFiles + 1, MaxLinkFiles + 2}

\* the files to link: file i has file number i
LinkMeta(n) == [i \in 1..n |-> [FileNum |-> i]]

\* the file numbers of meta[a..b]
FileNums(meta, a, b) == {meta[i].FileNum : i \in a..b}

InitLink ==
    /\ InitDB
    /\ fn \in {[pc |-> "link", meta |-> LinkMeta(n), provider |-> old,
                failAt |-> failAt, failRemove |-> failRemove,
                r |-> [err |-> ErrNone, objs |-> {}]]
                 : n \in 1..MaxLinkFiles, old \in SUBSET OldObjects,
                   failAt \in 0..MaxLinkFiles,
                   failRemove \in SUBSET (1..MaxLinkFiles)}
    /\ fn.failAt <= Len(fn.meta)

LinkApply ==
    /\ fn.pc = "link"
    /\ fn' = [fn EXCEPT !.pc = "linked",
                        !.r = ingestLink(fn.provider, fn.meta, fn.failAt,
                                         fn.failRemove)]
    /\ UNCHANGED dbVars

NextLink == LinkApply

SpecLink == InitLink /\ [][NextLink]_vars

\* C23 (linker rollback): when every installation succeeds ingestLink
\* returns no error and the provider has gained the n objects; when the
\* installation of file i fails it returns the installation's error, not
\* a removal's, the provider holds no object of file i or of a later file,
\* an object of an earlier file is left only if its own removal failed,
\* and the objects the provider held before are untouched
LinkerRollback ==
    fn.pc = "linked" =>
        LET n == Len(fn.meta) IN
        IF fn.failAt = 0
        THEN /\ fn.r.err = ErrNone
             /\ fn.r.objs = fn.provider \cup FileNums(fn.meta, 1, n)
        ELSE /\ fn.r.err = ErrIO
             /\ fn.r.objs \cap FileNums(fn.meta, fn.failAt, n) = {}
             /\ \A i \in 1..(fn.failAt - 1) :
                   fn.meta[i].FileNum \in fn.r.objs
                       <=> fn.meta[i].FileNum \in fn.failRemove
             /\ fn.r.objs \ FileNums(fn.meta, 1, n) = fn.provider

\* the third installation failed and so did the removal of the first
\* object: the second object was removed all the same
LinkerRollbackWitness ==
    /\ fn.pc = "linked"
    /\ fn.failAt = 3
    /\ fn.failRemove = {1}
    /\ fn.provider # {}
    /\ fn.r.objs = fn.provider \cup {1}

(***************************************************************************)
(* The comparator applied alone to two internal keys.                      *)
(***************************************************************************)
\* the keys compared: every user key, with no sequence number, the largest
\* one handed out or the maximum, of a point or a range kind
CompareKeys ==
    {MakeInternalKey(u, n, k) :
        u \in UserKeys, n \in {0, MaxSeqNum, InternalKeySeqNumMax},
        k \in {KindDelete, KindSet, KindRangeDelete, KindRangeKeySet}}

InitCompare ==
    /\ InitDB
    /\ fn \in {[pc |-> "keys", a |-> a, b |-> b, c |-> 0] : a, b \in CompareKeys}

CompareApply ==
    /\ fn.pc = "keys"
    /\ fn' = [fn EXCEPT !.pc = "compared", !.c = sstableKeyCompare(fn.a, fn.b)]
    /\ UNCHANGED dbVars

NextCompare == CompareApply

SpecCompare == InitCompare /\ [][NextCompare]_vars

\* C15 (comparator) as the specification words it: the user keys decide
\* first; of two keys with the same user key the one that is not an
\* exclusive sentinel is the lesser; two keys of the same sentinel status
\* are equal
ComparatorSentinelGreater ==
    fn.pc = "compared" =>
        IF fn.a.UserKey # fn.b.UserKey
        THEN fn.c = Compare(fn.a.UserKey, fn.b.UserKey)
        ELSE /\ ~IsExclusiveSentinel(fn.a) /\ IsExclusiveSentinel(fn.b) => fn.c < 0
             /\ IsExclusiveSentinel(fn.a) /\ ~IsExclusiveSentinel(fn.b) => fn.c > 0
             /\ IsExclusiveSentinel(fn.a) = IsExclusiveSentinel(fn.b) => fn.c = 0

\* C15 (comparator): the user keys decide first; of two keys with the same
\* user key the one that is an exclusive sentinel is the lesser; two keys
\* of the same sentinel status are equal whatever their sequence numbers
\* and kinds
ComparatorSentinelLess ==
    fn.pc = "compared" =>
        IF fn.a.UserKey # fn.b.UserKey
        THEN fn.c = Compare(fn.a.UserKey, fn.b.UserKey)
        ELSE /\ IsExclusiveSentinel(fn.a) /\ ~IsExclusiveSentinel(fn.b) => fn.c = -1
             /\ ~IsExclusiveSentinel(fn.a) /\ IsExclusiveSentinel(fn.b) => fn.c = 1
             /\ IsExclusiveSentinel(fn.a) = IsExclusiveSentinel(fn.b) => fn.c = 0

\* an exclusive sentinel was compared with a point key of the same user key
ComparatorSentinelLessWitness ==
    /\ fn.pc = "compared"
    /\ fn.a.UserKey = fn.b.UserKey
    /\ IsExclusiveSentinel(fn.a)
    /\ fn.b.Kind = KindSet /\ fn.b.SeqNum = 0
    /\ fn.c = -1

==========================================================================
